---- MODULE Spec2Model ----
(***************************************************************************)
(* Model of nocturne's audio cache (backend/app/services/audio_cache.py)   *)
(* and of the request path that drives it                                  *)
(* (backend/app/services/ai_music_generator.py).                           *)
(*                                                                         *)
(* The cache is an asyncio object: code between two awaits runs            *)
(* atomically, every awaited file operation (aiofiles open / write / read) *)
(* takes effect in a step of its own, and the coroutine resumes in a later *)
(* step.  Each action below is one such synchronous block or one file      *)
(* effect.  File operations that the code guards with try/except may fail. *)
(***************************************************************************)
EXTENDS Integers, Sequences, FiniteSets, TLC

(***************************************************************************)
(* Bounds of the model.                                                    *)
(***************************************************************************)
MaxSizeBytes == 2       \* max_size_bytes, scaled (max_size_mb * 1024 * 1024)
MaxClock == 1           \* utcnow() readings are 0..MaxClock
MaxAccess == 3          \* lookups are started while access_count < MaxAccess
MaxFaults == 1          \* file operations that fail in one behaviour

UsecPerSec == 1000000   \* datetime: microseconds per second

\* concurrently running coroutines (requests, background tasks)
Tasks == {"t1", "t2"}
NoTask == "none"

\* generation_params of a request: {genre, duration, ...}
GenParams == { [genre |-> "sleep", duration |-> 30],
               [genre |-> "ambient", duration |-> 30] }

\* audio_data: the bytes handed to cache_track
Payloads == { <<7>>, <<9, 9, 9>> }

\* track.format values used as the file extension
Exts == {"wav"}

\* max_age_days of cleanup_expired_entries, in clock units
Ages == {0, 1}

NoFile == <<-1>>        \* Path(...).exists() is False

(***************************************************************************)
(* _generate_cache_key: json.dumps(sort_keys=True) lists the fields in     *)
(* key order; the sha256 prefix is modelled as collision free, so the      *)
(* canonical serialization stands for its own hash.                        *)
(***************************************************************************)
GenerateCacheKey(p) == <<"duration", p.duration, "genre", p.genre>>

CacheKeys == { GenerateCacheKey(p) : p \in GenParams }

\* cache_dir / f"{cache_key}.{file_extension}"
CacheFilePath(k, ext) == <<k, ext>>

Paths == { CacheFilePath(k, x) : k \in CacheKeys, x \in Exts }

(***************************************************************************)
(* datetime.isoformat / datetime.fromisoformat on naive datetimes counted  *)
(* in microseconds: isoformat drops the fraction when it is zero.          *)
(***************************************************************************)
IsoFormat(t) ==
    IF t % UsecPerSec = 0 THEN <<t \div UsecPerSec>>
    ELSE <<t \div UsecPerSec, t % UsecPerSec>>

FromIsoFormat(s) ==
    IF Len(s) = 1 THEN s[1] * UsecPerSec ELSE s[1] * UsecPerSec + s[2]

(***************************************************************************)
(* _cache_index is a dict: an insertion-ordered map, modelled as a         *)
(* sequence of [key, e] with distinct keys.                                *)
(***************************************************************************)
Keys(d) == { d[i].key : i \in DOMAIN d }

Has(d, k) == k \in Keys(d)

Get(d, k) == d[CHOOSE i \in DOMAIN d : d[i].key = k].e

\* an assignment that moves the key to the end
SetItemMoved(d, k, e) ==
    Append(SelectSeq(d, LAMBDA x : x.key # k), [key |-> k, e |-> e])

\* d[k] = e: an existing key keeps its position, a new key is appended
SetItem(d, k, e) ==
    IF Has(d, k)
    THEN [i \in DOMAIN d |-> IF d[i].key = k THEN [key |-> k, e |-> e] ELSE d[i]]
    ELSE Append(d, [key |-> k, e |-> e])

\* del d[k]
DelItem(d, k) == SelectSeq(d, LAMBDA x : x.key # k)

RECURSIVE SumSizes(_)
SumSizes(d) ==
    IF d = <<>> THEN 0 ELSE d[1].e.file_size + SumSizes(Tail(d))

\* sum(entry.file_size for entry in self._cache_index.values())
TotalSize(d) == SumSizes(d)

\* sorted(items, key=last_accessed): stable, ties keep dict order
InsertByAccess(s, x) ==
    LET n == Cardinality({ i \in DOMAIN s :
                             s[i].e.last_accessed <= x.e.last_accessed })
    IN  SubSeq(s, 1, n) \o <<x>> \o SubSeq(s, n + 1, Len(s))

\* a cache that evicts in dict order: the sort is left out
SortByAccessUnsorted(d) == d

RECURSIVE SortByAccess(_)
SortByAccess(d) ==
    IF d = <<>> THEN <<>>
    ELSE InsertByAccess(SortByAccess(SubSeq(d, 1, Len(d) - 1)), d[Len(d)])

(***************************************************************************)
(* _save_metadata / _load_metadata: the JSON document of the sidecar.      *)
(***************************************************************************)
EncodeEntry(e) ==
    [ file_path     |-> e.file_path,
      created_at    |-> IsoFormat(e.created_at),
      last_accessed |-> IsoFormat(e.last_accessed),
      access_count  |-> e.access_count,
      file_size     |-> e.file_size ]

DecodeEntry(j) ==
    [ file_path     |-> j.file_path,
      created_at    |-> FromIsoFormat(j.created_at),
      last_accessed |-> FromIsoFormat(j.last_accessed),
      access_count  |-> j.access_count,
      file_size     |-> j.file_size ]

\* the metadata dict built at the top of _save_metadata
EncodeIndex(d) == [i \in DOMAIN d |-> [key |-> d[i].key, e |-> EncodeEntry(d[i].e)]]

\* the sidecar file: absent, a complete JSON document, or a truncated one
NoSidecar == [st |-> "absent", doc |-> <<>>]
TornSidecar == [st |-> "torn", doc |-> <<>>]
Document(doc) == [st |-> "ok", doc |-> doc]

RECURSIVE LoadInto(_, _)
\* for cache_key, entry_data in metadata.items(): index[cache_key] = CacheEntry(...)
LoadInto(d, doc) ==
    IF doc = <<>> THEN d
    ELSE LoadInto(SetItem(d, doc[1].key, DecodeEntry(doc[1].e)), Tail(doc))

VARIABLES
    index,      \* self._cache_index
    files,      \* the audio files of cache_dir: path -> bytes, or NoFile
    sidecar,    \* cache_metadata.json
    lock,       \* self._lock: the task holding it, or NoTask
    clock,      \* the latest datetime.utcnow() reading
    task,       \* per coroutine: position and locals
    last,       \* the step just taken, when it ended an operation
    chain,      \* the last completed put and the hits that followed it
    faults,     \* the file operations that have failed so far
    boot,       \* "restarted": a new process that has not yet initialized
    calc        \* the call of a pure function under study: arguments, result

vars == <<index, files, sidecar, lock, clock, task, last, chain, faults, boot,
          calc>>

\* the outcomes of a file operation that may raise: TRUE is success
Outcomes == IF faults < MaxFaults THEN BOOLEAN ELSE {TRUE}
Charge(ok) == IF ok THEN faults ELSE faults + 1

Exists(path) == files[path] # NoFile

\* an empty cache directory
NoFiles == [p \in Paths |-> NoFile]

\* no pure function is under study
NoCalc == [fn |-> "none"]

\* the cache as a request found it: none recorded
NoReq == [index |-> <<>>, files |-> NoFiles, sidecar |-> NoSidecar]

\* the CacheMetrics of no call
NoMetrics == [total_cached_tracks |-> 0, total_size |-> 0, cache_hit_rate |-> <<0, 1>>]

IdleTask ==
    [ pc |-> "idle", op |-> "none", key |-> <<>>, data |-> <<>>, ext |-> "",
      cutoff |-> 0, pre |-> <<>>, preSide |-> NoSidecar, preFiles |-> NoFiles,
      sfail |-> FALSE, cand |-> <<>>,
      nev |-> 0, cur |-> 0, snap |-> <<>>, cont |-> "", todo |-> <<>>,
      count |-> 0, rd |-> NoSidecar, phase |-> "", missed |-> FALSE,
      res |-> "", req |-> NoReq, acRaised |-> FALSE, synRaised |-> FALSE,
      log |-> <<>> ]

NoEvent ==
    [ op |-> "none", t |-> NoTask, key |-> <<>>, res |-> "", data |-> <<>>,
      pre |-> <<>>, preSide |-> NoSidecar, preFiles |-> NoFiles,
      sfail |-> FALSE, cand |-> <<>>, nev |-> 0,
      chained |-> FALSE, hits |-> 0, count |-> 0, cutoff |-> 0,
      req |-> NoReq, acRaised |-> FALSE, synRaised |-> FALSE,
      metrics |-> NoMetrics, missed |-> FALSE, trackId |-> <<>>,
      log |-> <<>> ]

NoChain == [live |-> FALSE, key |-> <<>>, data |-> <<>>, hits |-> 0]

\* the event of task t ending its operation with result res
Event(t, res) ==
    [ NoEvent EXCEPT !.op = task[t].op, !.t = t, !.key = task[t].key,
                     !.res = res, !.data = task[t].data,
                     !.pre = task[t].pre, !.preSide = task[t].preSide,
                     !.preFiles = task[t].preFiles, !.sfail = task[t].sfail,
                     !.cand = task[t].cand, !.nev = task[t].nev,
                     !.count = task[t].count, !.cutoff = task[t].cutoff ]

Init ==
    /\ index = <<>>
    /\ files = NoFiles
    /\ sidecar = NoSidecar
    /\ lock = NoTask
    /\ clock = 0
    /\ task = [t \in Tasks |-> IdleTask]
    /\ last = NoEvent
    /\ chain = NoChain
    /\ faults = 0
    /\ boot = "running"
    /\ calc = NoCalc

\* the coroutine after its cache operation returned res: a direct call is
\* over, a call made by generate_music returns there
Return(t, res) ==
    IF task[t].phase = ""
    THEN IdleTask
    ELSE [IdleTask EXCEPT !.pc = "ret", !.op = task[t].op, !.key = task[t].key,
                          !.data = task[t].data, !.ext = task[t].ext,
                          !.phase = task[t].phase, !.missed = task[t].missed,
                          !.req = task[t].req, !.acRaised = task[t].acRaised,
                          !.log = task[t].log, !.res = res]

\* a step inside an operation: no operation ends
Quiet == last' = NoEvent /\ UNCHANGED <<chain, boot, calc>>

\* an operation other than a put or a lookup of the chained key ends
Ends(t, res) == last' = Event(t, res) /\ chain' = NoChain /\ UNCHANGED <<boot, calc>>

\* datetime.utcnow() advances
Tick ==
    /\ clock < MaxClock
    /\ clock' = clock + 1
    /\ Quiet
    /\ UNCHANGED <<index, files, sidecar, lock, task, faults>>

(***************************************************************************)
(* Calls arriving at the cache.                                            *)
(***************************************************************************)
\* cache_track(track, audio_data, generation_params) up to `async with`,
\* its arguments drawn from P, D and X
StartPut(t, P, D, X) ==
    /\ task[t].pc = "idle"
    /\ \E p \in P, d \in D, x \in X :
         task' = [task EXCEPT ![t] =
                    [IdleTask EXCEPT !.pc = "lock", !.op = "put",
                                     !.key = GenerateCacheKey(p),
                                     !.data = d, !.ext = x]]
    /\ Quiet
    /\ UNCHANGED <<index, files, sidecar, lock, clock, faults>>

\* get_cached_track(generation_params) up to `async with`
StartLookup(t, P) ==
    /\ task[t].pc = "idle"
    /\ \E p \in P :
         /\ Has(index, GenerateCacheKey(p)) =>
              Get(index, GenerateCacheKey(p)).access_count < MaxAccess
         /\ task' = [task EXCEPT ![t] =
                      [IdleTask EXCEPT !.pc = "lock", !.op = "lookup",
                                       !.key = GenerateCacheKey(p)]]
    /\ Quiet
    /\ UNCHANGED <<index, files, sidecar, lock, clock, faults>>

\* remove_cached_track(cache_key) up to `async with`
StartRemove(t, K) ==
    /\ task[t].pc = "idle"
    /\ \E k \in K :
         task' = [task EXCEPT ![t] =
                    [IdleTask EXCEPT !.pc = "lock", !.op = "remove", !.key = k]]
    /\ Quiet
    /\ UNCHANGED <<index, files, sidecar, lock, clock, faults>>

\* cleanup_expired_entries(max_age_days): cutoff_date is read before the lock
StartCleanup(t, A) ==
    /\ task[t].pc = "idle"
    /\ \E a \in A :
         task' = [task EXCEPT ![t] =
                    [IdleTask EXCEPT !.pc = "lock", !.op = "cleanup",
                                     !.cutoff = clock - a]]
    /\ Quiet
    /\ UNCHANGED <<index, files, sidecar, lock, clock, faults>>

\* a lock that admits every caller
AcquireUnguarded(t) == TRUE

\* async with self._lock
AcquireOk(t) == lock = NoTask

Acquire(t) ==
    /\ task[t].pc = "lock"
    /\ AcquireOk(t)
    /\ lock' = t
    /\ task' = [task EXCEPT ![t].pc = "cs", ![t].pre = index,
                            ![t].preSide = sidecar, ![t].preFiles = files]
    /\ Quiet
    /\ UNCHANGED <<index, files, sidecar, clock, faults>>

(***************************************************************************)
(* _remove_cache_entry, its synchronous part: os.remove in try/except, del *)
(* from the index; the await of _save_metadata follows when it returns     *)
(* True.  rmOk: os.remove did not raise.                                   *)
(***************************************************************************)
CallsOsRemove(k) == Has(index, k) /\ Exists(Get(index, k).file_path)

RemoveOutcomes(k) == IF CallsOsRemove(k) THEN Outcomes ELSE {TRUE}

FilesAfterRemove(k, rmOk) ==
    IF CallsOsRemove(k) /\ rmOk
    THEN [files EXCEPT ![Get(index, k).file_path] = NoFile]
    ELSE files

\* a _remove_cache_entry that forgets `del self._cache_index[cache_key]`
IndexAfterRemoveKept(k) == index

IndexAfterRemove(k) == DelItem(index, k)

(***************************************************************************)
(* _save_metadata: the dict is built from the index when the call starts   *)
(* (task.snap); open(..., 'w') truncates the sidecar; write stores the     *)
(* document.  Both are inside try/except: a failure is printed and the     *)
(* caller continues.                                                       *)
(***************************************************************************)
SaveOpen(t) ==
    /\ task[t].pc = "save_open"
    /\ \E ok \in Outcomes :
         /\ faults' = Charge(ok)
         /\ IF ok
            THEN /\ sidecar' = TornSidecar
                 /\ task' = [task EXCEPT ![t].pc = "save_write"]
            ELSE /\ sidecar' = sidecar
                 /\ task' = [task EXCEPT ![t].pc = task[t].cont,
                                         ![t].sfail = TRUE]
    /\ Quiet
    /\ UNCHANGED <<index, files, lock, clock>>

SaveWrite(t) ==
    /\ task[t].pc = "save_write"
    /\ \E ok \in Outcomes :
         /\ faults' = Charge(ok)
         /\ sidecar' = IF ok THEN Document(task[t].snap) ELSE TornSidecar
         /\ task' = [task EXCEPT ![t].pc = task[t].cont,
                                 ![t].sfail = @ \/ ~ok]
    /\ Quiet
    /\ UNCHANGED <<index, files, lock, clock>>

(***************************************************************************)
(* get_cached_track inside the lock.                                       *)
(***************************************************************************)
LookupCS(t) ==
    /\ task[t].pc = "cs"
    /\ task[t].op = "lookup"
    /\ LET k == task[t].key IN
       IF ~Has(index, k)
       THEN \* return None
            /\ lock' = NoTask
            /\ task' = [task EXCEPT ![t] = Return(t, "miss")]
            /\ Ends(t, "miss")
            /\ UNCHANGED <<index, files, sidecar, clock, faults>>
       ELSE IF ~Exists(Get(index, k).file_path)
       THEN \* _remove_cache_entry(cache_key); return None
            /\ index' = IndexAfterRemove(k)
            /\ task' = [task EXCEPT ![t].pc = "save_open",
                                    ![t].snap = EncodeIndex(index'),
                                    ![t].cont = "lookup_purged"]
            /\ Quiet
            /\ UNCHANGED <<files, sidecar, lock, clock, faults>>
       ELSE \* entry.last_accessed = utcnow(); entry.access_count += 1
            /\ index' = SetItem(index, k,
                          [Get(index, k) EXCEPT
                             !.last_accessed = clock,
                             !.access_count = @ + 1])
            /\ task' = [task EXCEPT ![t].pc = "save_open",
                                    ![t].snap = EncodeIndex(index'),
                                    ![t].cont = "lookup_hit"]
            /\ Quiet
            /\ UNCHANGED <<files, sidecar, lock, clock, faults>>

\* the return after _save_metadata: the track on a hit, None after a purge
LookupDone(t) ==
    /\ task[t].pc \in {"lookup_hit", "lookup_purged"}
    /\ task[t].op = "lookup"
    /\ lock' = NoTask
    /\ task' = [task EXCEPT ![t] =
                 Return(t, IF task[t].pc = "lookup_hit" THEN "hit" ELSE "purged")]
    /\ LET hit == task[t].pc = "lookup_hit"
           chained == chain.live /\ chain.key = task[t].key
       IN  /\ last' = [Event(t, IF hit THEN "hit" ELSE "purged") EXCEPT
                         !.chained = chained, !.hits = chain.hits + 1]
           /\ chain' = IF hit /\ chained
                       THEN [chain EXCEPT !.hits = @ + 1]
                       ELSE NoChain
    /\ UNCHANGED <<index, files, sidecar, clock, faults, boot, calc>>

(***************************************************************************)
(* cache_track inside the lock.                                            *)
(***************************************************************************)
Fits(cur, n) == cur + n <= MaxSizeBytes

\* _ensure_cache_space up to its first removal
EnsureSpace(t) ==
    /\ task[t].pc = "cs"
    /\ task[t].op = "put"
    /\ LET cur == TotalSize(index)
           n == Len(task[t].data)
       IN  IF Fits(cur, n)
           THEN task' = [task EXCEPT ![t].pc = "open"]
           ELSE task' = [task EXCEPT ![t].pc = "evict", ![t].cur = cur,
                                     ![t].cand = SortByAccess(index),
                                     ![t].nev = 0]
    /\ Quiet
    /\ UNCHANGED <<index, files, sidecar, lock, clock, faults>>

\* a loop without its break
EvictionDoneAtEnd(t, sz) == task[t].nev + 1 = Len(task[t].cand)

\* after removing an entry of file_size sz: stop evicting?
EvictionDone(t, sz) ==
    \/ task[t].nev + 1 = Len(task[t].cand)
    \/ Fits(task[t].cur - sz, Len(task[t].data))

\* one iteration of `for cache_key, entry in entries_by_access`
Evict(t) ==
    /\ task[t].pc = "evict"
    /\ IF task[t].nev = Len(task[t].cand)
       THEN \* nothing (left) to iterate over
            /\ task' = [task EXCEPT ![t].pc = "open"]
            /\ UNCHANGED <<index, files, faults>>
       ELSE LET c == task[t].cand[task[t].nev + 1]
                next == IF EvictionDone(t, c.e.file_size) THEN "open" ELSE "evict"
            IN  /\ \E rmOk \in RemoveOutcomes(c.key) :
                      /\ files' = FilesAfterRemove(c.key, rmOk)
                      /\ faults' = Charge(rmOk)
                /\ index' = IndexAfterRemove(c.key)
                /\ task' = [task EXCEPT
                              ![t].pc = IF Has(index, c.key) THEN "save_open" ELSE next,
                              ![t].snap = EncodeIndex(index'),
                              ![t].cont = next,
                              ![t].cur = @ - c.e.file_size,
                              ![t].nev = @ + 1]
    /\ Quiet
    /\ UNCHANGED <<sidecar, lock, clock>>

\* an exception leaves `async with self._lock` with the lock still held
LockHeldOnRaise(t) == t

\* `async with self._lock`: __aexit__ releases the lock when the body raises
LockOnRaise(t) == NoTask

\* aiofiles.open(cache_file_path, 'wb'): creates or truncates the file
FileOpen(t) ==
    /\ task[t].pc = "open"
    /\ \E ok \in Outcomes :
         /\ faults' = Charge(ok)
         /\ IF ok
            THEN /\ files' = [files EXCEPT
                                ![CacheFilePath(task[t].key, task[t].ext)] = <<>>]
                 /\ task' = [task EXCEPT ![t].pc = "write"]
                 /\ Quiet
                 /\ UNCHANGED lock
            ELSE \* the exception leaves `async with self._lock` and cache_track
                 /\ files' = files
                 /\ lock' = LockOnRaise(t)
                 /\ task' = [task EXCEPT ![t] = Return(t, "raise")]
                 /\ Ends(t, "raise")
    /\ UNCHANGED <<index, sidecar, clock>>

\* a CacheEntry created with access_count=0
NewEntryUncounted(t, created, accessed) ==
    [ file_path     |-> CacheFilePath(task[t].key, task[t].ext),
      created_at    |-> created,
      last_accessed |-> accessed,
      access_count  |-> 0,
      file_size     |-> Len(task[t].data) ]

\* CacheEntry(...): created_at and last_accessed are two utcnow() readings
NewEntry(t, created, accessed) ==
    [ file_path     |-> CacheFilePath(task[t].key, task[t].ext),
      created_at    |-> created,
      last_accessed |-> accessed,
      access_count  |-> 1,
      file_size     |-> Len(task[t].data) ]

\* an index that keeps the earlier entry of the key next to the new one
IndexAfterCommitAppended(t, e) == Append(index, [key |-> task[t].key, e |-> e])

\* self._cache_index[cache_key] = entry
IndexAfterCommit(t, e) == SetItem(index, task[t].key, e)

\* the bytes a failed write may leave behind
Prefixes(d) == { SubSeq(d, 1, n) : n \in 0..(Len(d) - 1) }

\* a cache_track that sets the index entry before it writes the file
FileWriteAfterCommit(t) ==
    /\ task[t].pc = "write"
    /\ LET path == CacheFilePath(task[t].key, task[t].ext) IN
       \/ /\ files' = [files EXCEPT ![path] = task[t].data]
          /\ task' = [task EXCEPT ![t].pc = "commit"]
          /\ Quiet
          /\ UNCHANGED <<index, lock, faults>>
       \/ /\ faults < MaxFaults
          /\ faults' = faults + 1
          /\ \E part \in Prefixes(task[t].data) :
               files' = [files EXCEPT ![path] = part]
          /\ index' = IndexAfterCommit(t, NewEntry(t, clock, clock))
          /\ lock' = NoTask
          /\ task' = [task EXCEPT ![t] = Return(t, "raise")]
          /\ Ends(t, "raise")
    /\ UNCHANGED <<sidecar, clock>>

\* f.write(audio_data)
FileWrite(t) ==
    /\ task[t].pc = "write"
    /\ LET path == CacheFilePath(task[t].key, task[t].ext) IN
       \/ /\ files' = [files EXCEPT ![path] = task[t].data]
          /\ task' = [task EXCEPT ![t].pc = "commit"]
          /\ Quiet
          /\ UNCHANGED <<lock, faults>>
       \/ /\ faults < MaxFaults
          /\ faults' = faults + 1
          /\ \E part \in Prefixes(task[t].data) :
               files' = [files EXCEPT ![path] = part]
          /\ lock' = LockOnRaise(t)
          /\ task' = [task EXCEPT ![t] = Return(t, "raise")]
          /\ Ends(t, "raise")
    /\ UNCHANGED <<index, sidecar, clock>>

Commit(t) ==
    /\ task[t].pc = "commit"
    /\ \E now \in {clock, IF clock < MaxClock THEN clock + 1 ELSE clock} :
         /\ index' = IndexAfterCommit(t, NewEntry(t, clock, now))
         /\ clock' = now
    /\ task' = [task EXCEPT ![t].pc = "save_open",
                            ![t].snap = EncodeIndex(index'),
                            ![t].cont = "put_done"]
    /\ Quiet
    /\ UNCHANGED <<files, sidecar, lock, faults>>

\* return cache_key
PutDone(t) ==
    /\ task[t].pc = "put_done"
    /\ task[t].op = "put"
    /\ lock' = NoTask
    /\ task' = [task EXCEPT ![t] = Return(t, "ok")]
    /\ last' = Event(t, "ok")
    /\ chain' = [live |-> TRUE, key |-> task[t].key, data |-> task[t].data,
                 hits |-> 0]
    /\ UNCHANGED <<index, files, sidecar, clock, faults, boot, calc>>

(***************************************************************************)
(* remove_cached_track inside the lock.                                    *)
(***************************************************************************)
RemoveCS(t) ==
    /\ task[t].pc = "cs"
    /\ task[t].op = "remove"
    /\ LET k == task[t].key IN
       IF ~Has(index, k)
       THEN \* return False
            /\ lock' = NoTask
            /\ task' = [task EXCEPT ![t] = IdleTask]
            /\ Ends(t, "false")
            /\ UNCHANGED <<index, files, faults>>
       ELSE /\ \E rmOk \in RemoveOutcomes(k) :
                 /\ files' = FilesAfterRemove(k, rmOk)
                 /\ faults' = Charge(rmOk)
            /\ index' = IndexAfterRemove(k)
            /\ task' = [task EXCEPT ![t].pc = "save_open",
                                    ![t].snap = EncodeIndex(index'),
                                    ![t].cont = "rm_done"]
            /\ Quiet
            /\ UNCHANGED lock
    /\ UNCHANGED <<sidecar, clock>>

\* return True
RemoveDone(t) ==
    /\ task[t].pc = "rm_done"
    /\ lock' = NoTask
    /\ task' = [task EXCEPT ![t] = IdleTask]
    /\ Ends(t, "true")
    /\ UNCHANGED <<index, files, sidecar, clock, faults>>

(***************************************************************************)
(* cleanup_expired_entries inside the lock.                                *)
(***************************************************************************)
\* keys_to_remove with <= in place of <
ExpiredInclusive(d, cutoff) == SelectSeq(d, LAMBDA x : x.e.last_accessed <= cutoff)

\* [key for key, entry in items() if entry.last_accessed < cutoff_date]
Expired(d, cutoff) == SelectSeq(d, LAMBDA x : x.e.last_accessed < cutoff)

CleanupCS(t) ==
    /\ task[t].pc = "cs"
    /\ task[t].op = "cleanup"
    /\ task' = [task EXCEPT ![t].pc = "clean",
                            ![t].todo = Expired(index, task[t].cutoff)]
    /\ Quiet
    /\ UNCHANGED <<index, files, sidecar, lock, clock, faults>>

\* one iteration of `for key in keys_to_remove`, or the return
CleanupStep(t) ==
    /\ task[t].pc = "clean"
    /\ IF task[t].todo = <<>>
       THEN \* return removed_count
            /\ lock' = NoTask
            /\ task' = [task EXCEPT ![t] = IdleTask]
            /\ Ends(t, "ok")
            /\ UNCHANGED <<index, files, faults>>
       ELSE LET k == task[t].todo[1].key IN
            /\ \E rmOk \in RemoveOutcomes(k) :
                 /\ files' = FilesAfterRemove(k, rmOk)
                 /\ faults' = Charge(rmOk)
            /\ index' = IndexAfterRemove(k)
            /\ task' = [task EXCEPT
                          ![t].pc = IF Has(index, k) THEN "save_open" ELSE "clean",
                          ![t].snap = EncodeIndex(index'),
                          ![t].cont = "clean",
                          ![t].todo = Tail(@),
                          ![t].count = IF Has(index, k) THEN @ + 1 ELSE @]
            /\ Quiet
            /\ UNCHANGED lock
    /\ UNCHANGED <<sidecar, clock>>

(***************************************************************************)
(* initialize: _load_metadata then _cleanup_invalid_entries.  It takes no  *)
(* lock.                                                                   *)
(***************************************************************************)
StartInit(t) ==
    /\ task[t].pc = "idle"
    /\ task' = [task EXCEPT ![t] = [IdleTask EXCEPT !.pc = "load", !.op = "init"]]
    /\ Quiet
    /\ UNCHANGED <<index, files, sidecar, lock, clock, faults>>

\* metadata_file.exists(), aiofiles.open, f.read()
InitRead(t) ==
    /\ task[t].pc = "load"
    /\ task' = [task EXCEPT ![t].pc = "parse", ![t].rd = sidecar,
                            ![t].pre = index, ![t].preSide = sidecar]
    /\ last' = NoEvent
    /\ chain' = NoChain
    /\ UNCHANGED <<index, files, sidecar, lock, clock, faults, boot, calc>>

\* the index _load_metadata leaves, given what was read
Loaded(d, rd) ==
    IF rd.st = "ok" THEN LoadInto(d, rd.doc)
    ELSE <<>>       \* no file, or json.loads raised: self._cache_index = {}

\* a _cleanup_invalid_entries that purges nothing
ValidKeepsAll(d) == d

\* the entries _cleanup_invalid_entries keeps
Valid(d) == SelectSeq(d, LAMBDA x : Exists(x.e.file_path))

InitParse(t) ==
    /\ task[t].pc = "parse"
    /\ LET loaded == Loaded(index, task[t].rd) IN
       /\ index' = Valid(loaded)
       /\ task' = [task EXCEPT
                     ![t].pc = IF index' # loaded THEN "save_open" ELSE "init_done",
                     ![t].snap = EncodeIndex(index'),
                     ![t].cont = "init_done"]
    /\ last' = NoEvent
    /\ chain' = NoChain
    /\ UNCHANGED <<files, sidecar, lock, clock, faults, boot, calc>>

InitDone(t) ==
    /\ task[t].pc = "init_done"
    /\ task' = [task EXCEPT ![t] = IdleTask]
    /\ last' = Event(t, IF boot = "restarted" THEN "recovered" ELSE "ok")
    /\ chain' = NoChain
    /\ boot' = "running"
    /\ UNCHANGED <<index, files, sidecar, lock, clock, faults, calc>>

(***************************************************************************)
(* generate_music: a lookup; on a miss AudioCraft and, when that raises,   *)
(* the programmatic synthesis.  Each generator stores its track with       *)
(* cache_track before it returns.  A request is one coroutine: it ends at  *)
(* "done" with its response in res.                                        *)
(***************************************************************************)
\* generate_music up to `await audio_cache.get_cached_track(...)`
StartGenerate(t, P) ==
    /\ task[t].pc = "idle"
    /\ \E p \in P :
         /\ Has(index, GenerateCacheKey(p)) =>
              Get(index, GenerateCacheKey(p)).access_count < MaxAccess
         /\ task' = [task EXCEPT ![t] =
                      [IdleTask EXCEPT !.pc = "lock", !.op = "lookup",
                                       !.key = GenerateCacheKey(p),
                                       !.phase = "lookup",
                                       !.req = [index |-> index, files |-> files,
                                                sidecar |-> sidecar]]]
    /\ Quiet
    /\ UNCHANGED <<index, files, sidecar, lock, clock, faults>>

\* the id of the track in the response: get_cached_track builds its track
\* with id=cache_key, the generators with str(uuid.uuid4())
TrackId(t, res) ==
    IF res = "cached" THEN task[t].key
    ELSE IF res = "ok" THEN <<"uuid4">>
    ELSE <<>>

GenEvent(t, res) ==
    [ NoEvent EXCEPT !.op = "generate", !.t = t, !.key = task[t].key,
                     !.res = res, !.data = task[t].data,
                     !.req = task[t].req, !.acRaised = task[t].acRaised,
                     !.missed = task[t].missed, !.trackId = TrackId(t, res),
                     !.log = task[t].log ]

\* return MusicGenerationResponse(...)
Respond(t, res) ==
    /\ task' = [task EXCEPT ![t].pc = "done", ![t].res = res]
    /\ last' = GenEvent(t, res)
    /\ UNCHANGED <<chain, boot, calc>>

\* the synthesis raised: the outer except returns success=False
RespondSynthFailed(t) ==
    /\ task' = [task EXCEPT ![t].pc = "done", ![t].res = "failed",
                            ![t].synRaised = TRUE,
                            ![t].log = Append(@, "programmatic")]
    /\ last' = [GenEvent(t, "failed") EXCEPT
                  !.synRaised = TRUE, !.log = Append(@, "programmatic")]
    /\ UNCHANGED <<chain, boot, calc>>

\* the generator's call of audio_cache.cache_track with the bytes d it made;
\* log: the generators invoked for the request and the failure of the
\* external path, in order
StorePut(t, d, phase) ==
    [ IdleTask EXCEPT !.pc = "lock", !.op = "put", !.key = task[t].key,
                      !.data = d, !.ext = "wav", !.phase = phase,
                      !.missed = TRUE, !.req = task[t].req,
                      !.acRaised = task[t].acRaised,
                      !.log = Append(task[t].log, phase) ]

\* a request that never takes the cached track
IsCachedNever(res) == FALSE

\* if cached_track:
IsCached(res) == res = "hit"

\* after get_cached_track: the cached track, or audiocraft_generator, which
\* returns audio or raises
LookupReturned(t, D) ==
    /\ task[t].pc = "ret"
    /\ task[t].phase = "lookup"
    /\ IF IsCached(task[t].res)
       THEN Respond(t, "cached")
       ELSE /\ \/ \E d \in D :
                    task' = [task EXCEPT ![t] = StorePut(t, d, "audiocraft")]
               \/ task' = [task EXCEPT ![t].pc = "fallback",
                                       ![t].missed = TRUE,
                                       ![t].acRaised = TRUE,
                                       ![t].log = @ \o <<"audiocraft", "external_failed">>]
            /\ Quiet
    /\ UNCHANGED <<index, files, sidecar, lock, clock, faults>>

\* _generate_programmatic_music up to `await audio_cache.cache_track(...)`:
\* the synthesis makes its bytes, or raises
Programmatic(t, D) ==
    /\ task[t].pc = "fallback"
    /\ \/ /\ \E d \in D :
               task' = [task EXCEPT ![t] = StorePut(t, d, "programmatic")]
          /\ Quiet
       \/ RespondSynthFailed(t)
    /\ UNCHANGED <<index, files, sidecar, lock, clock, faults>>

\* a fallback taken after any failed path
FallsBackAlways(phase) == TRUE

\* the inner try encloses _generate_audiocraft_music only
FallsBack(phase) == phase = "audiocraft"

\* after cache_track: the response, the fallback when the AudioCraft path
\* raised, success=False when the fallback raised
PutReturned(t) ==
    /\ task[t].pc = "ret"
    /\ task[t].phase \in {"audiocraft", "programmatic"}
    /\ IF task[t].res = "ok"
       THEN Respond(t, "ok")
       ELSE IF FallsBack(task[t].phase)
       THEN /\ task' = [task EXCEPT ![t].pc = "fallback",
                                    ![t].log = Append(@, "external_failed")]
            /\ Quiet
       ELSE Respond(t, "failed")
    /\ UNCHANGED <<index, files, sidecar, lock, clock, faults>>

(***************************************************************************)
(* The steps of an operation under way, for any caller.                    *)
(***************************************************************************)
LockStep(t) == Acquire(t) \/ SaveOpen(t) \/ SaveWrite(t)

LookupStep(t) == LookupCS(t) \/ LookupDone(t)

PutStep(t) ==
    \/ EnsureSpace(t) \/ Evict(t) \/ FileOpen(t) \/ FileWrite(t)
    \/ Commit(t) \/ PutDone(t)

RemoveStep(t) == RemoveCS(t) \/ RemoveDone(t)

ExpiryStep(t) == CleanupCS(t) \/ CleanupStep(t)

InitStep(t) == InitRead(t) \/ InitParse(t) \/ InitDone(t)

Step(t) ==
    \/ LockStep(t) \/ LookupStep(t) \/ PutStep(t)
    \/ RemoveStep(t) \/ ExpiryStep(t) \/ InitStep(t)

(***************************************************************************)
(* Spec: one caller issues any sequence of initialize, put, lookup, remove *)
(* and cleanup_expired, each completing before the next starts.            *)
(***************************************************************************)
MainTask == "t1"

\* a process that restarted initializes before it serves anything else
Call(t) ==
    \/ boot = "running" /\ StartPut(t, GenParams, Payloads, Exts)
    \/ boot = "running" /\ StartLookup(t, GenParams)
    \/ boot = "running" /\ StartRemove(t, CacheKeys)
    \/ boot = "running" /\ StartCleanup(t, Ages)
    \/ StartInit(t)

Next == Tick \/ Call(MainTask) \/ Step(MainTask)

Spec == Init /\ [][Next]_vars

(***************************************************************************)
(* SpecExt: the same caller, and audio files may be deleted from outside   *)
(* the cache at any moment.                                                *)
(***************************************************************************)
ExternalDelete ==
    /\ \E p \in Paths :
         /\ Exists(p)
         /\ files' = [files EXCEPT ![p] = NoFile]
    /\ last' = NoEvent
    /\ chain' = NoChain
    /\ UNCHANGED <<index, sidecar, lock, clock, task, faults, boot, calc>>

NextExt == Next \/ ExternalDelete

SpecExt == Init /\ [][NextExt]_vars

(***************************************************************************)
(* SpecCrash: the same caller, and the process may die at any step.  The   *)
(* files and the sidecar stay as they are, the memory of the process is    *)
(* lost, and the new process runs initialize first.                        *)
(***************************************************************************)
CrashEvent == [NoEvent EXCEPT !.op = "crash"]

Crash ==
    /\ index' = <<>>
    /\ lock' = NoTask
    /\ task' = [t \in Tasks |-> IdleTask]
    /\ last' = CrashEvent
    /\ chain' = NoChain
    /\ boot' = "restarted"
    /\ UNCHANGED <<files, sidecar, clock, faults, calc>>

NextCrash == Next \/ Crash

SpecCrash == Init /\ [][NextCrash]_vars

(***************************************************************************)
(* SpecConc: two coroutines call put, lookup, remove and cleanup_expired   *)
(* on one key, their steps interleaved at the awaits.                      *)
(***************************************************************************)
ConcParams == {[genre |-> "sleep", duration |-> 30]}

ConcKeys == { GenerateCacheKey(p) : p \in ConcParams }

CallConc(t) ==
    \/ StartPut(t, ConcParams, Payloads, Exts)
    \/ StartLookup(t, ConcParams)
    \/ StartRemove(t, ConcKeys)
    \/ StartCleanup(t, Ages)

StepConc(t) ==
    \/ LockStep(t) \/ LookupStep(t) \/ PutStep(t)
    \/ RemoveStep(t) \/ ExpiryStep(t)

NextConc == Tick \/ \E t \in Tasks : CallConc(t) \/ StepConc(t)

SpecConc == Init /\ [][NextConc]_vars

(***************************************************************************)
(* SpecGen: two generate requests run concurrently on an empty cache.      *)
(***************************************************************************)
StepGen(t) ==
    \/ StartGenerate(t, GenParams)
    \/ LookupReturned(t, Payloads)
    \/ Programmatic(t, Payloads)
    \/ PutReturned(t)
    \/ LockStep(t) \/ LookupStep(t) \/ PutStep(t)

NextGen == Tick \/ \E t \in Tasks : StepGen(t)

SpecGen == Init /\ [][NextGen]_vars

(***************************************************************************)
(* SpecServe: one caller stores tracks and issues generate requests, one   *)
(* after the other.                                                        *)
(***************************************************************************)
\* the request coroutine is over; the caller may issue the next
NextRequest(t) ==
    /\ task[t].pc = "done"
    /\ task' = [task EXCEPT ![t] = IdleTask]
    /\ Quiet
    /\ UNCHANGED <<index, files, sidecar, lock, clock, faults>>

StepServe(t) ==
    \/ StartPut(t, GenParams, Payloads, Exts)
    \/ StartGenerate(t, GenParams)
    \/ LookupReturned(t, Payloads)
    \/ Programmatic(t, Payloads)
    \/ PutReturned(t)
    \/ NextRequest(t)
    \/ LockStep(t) \/ LookupStep(t) \/ PutStep(t)

NextServe == Tick \/ StepServe(MainTask)

SpecServe == Init /\ [][NextServe]_vars

(***************************************************************************)
(* get_cache_metrics: the body inside the lock has no await.  A rate is    *)
(* the pair <<dividend, divisor>> of its division; total_size is in bytes. *)
(***************************************************************************)
\* a hit count that takes every entry for a hit
GetCacheMetricsAnyAccess(d) ==
    [ total_cached_tracks |-> Len(d),
      total_size          |-> TotalSize(d),
      cache_hit_rate      |-> IF d = <<>> THEN <<0, 1>> ELSE <<Len(d), Len(d)>> ]

GetCacheMetrics(d) ==
    [ total_cached_tracks |-> Len(d),
      total_size          |-> TotalSize(d),
      cache_hit_rate      |->
          IF d = <<>> THEN <<0, 1>>
          ELSE <<Cardinality({ i \in DOMAIN d : d[i].e.access_count > 1 }), Len(d)>> ]

\* get_cache_metrics() up to `async with`
StartMetrics(t) ==
    /\ task[t].pc = "idle"
    /\ task' = [task EXCEPT ![t] = [IdleTask EXCEPT !.pc = "lock", !.op = "metrics"]]
    /\ Quiet
    /\ UNCHANGED <<index, files, sidecar, lock, clock, faults>>

MetricsCS(t) ==
    /\ task[t].pc = "cs"
    /\ task[t].op = "metrics"
    /\ lock' = NoTask
    /\ task' = [task EXCEPT ![t] = IdleTask]
    /\ last' = [Event(t, "ok") EXCEPT !.metrics = GetCacheMetrics(index)]
    /\ chain' = NoChain
    /\ UNCHANGED <<index, files, sidecar, clock, faults, boot, calc>>

\* SpecMetrics: the one caller may also ask for the metrics
NextMetrics ==
    \/ Next
    \/ boot = "running" /\ StartMetrics(MainTask)
    \/ MetricsCS(MainTask)

SpecMetrics == Init /\ [][NextMetrics]_vars

(***************************************************************************)
(* What the sidecar holds, and the index a fresh process loads from it.    *)
(***************************************************************************)
SidecarDoc(sc) == IF sc.st = "ok" THEN sc.doc ELSE <<>>

Reloaded(sc) == Valid(Loaded(<<>>, sc))

AllBacked(d) == \A i \in DOMAIN d : Exists(d[i].e.file_path)

PutEnded == last.op = "put"
PutCompleted == last.op = "put" /\ last.res = "ok"
PutRaised == last.op = "put" /\ last.res = "raise"

\* the keys the put that just ended evicted, and the entries it retained
EvictedKeys == { last.cand[i].key : i \in 1..last.nev }
RetainedKeys == Keys(last.pre) \ EvictedKeys

(***************************************************************************)
(* C1: after any put completes, whatever the size of audio_data, the sum   *)
(* of file_size over the index entries is at most max_size_bytes.          *)
(***************************************************************************)
C1_TotalWithinBudget ==
    PutCompleted => TotalSize(index) <= MaxSizeBytes

(***************************************************************************)
(* C2: eviction is least-recently-used.  Every entry a put evicts has a    *)
(* last_accessed no later than that of every entry the put retains, the    *)
(* evicted entries are gone from the index and the retained ones are still *)
(* in it.                                                                  *)
(***************************************************************************)
C2_EvictsLeastRecentlyUsed ==
    PutEnded =>
      /\ \A a \in EvictedKeys, b \in RetainedKeys :
           Get(last.pre, a).last_accessed <= Get(last.pre, b).last_accessed
      /\ \A a \in EvictedKeys : a # last.key => ~Has(index, a)
      /\ \A b \in RetainedKeys : Has(index, b)

\* a put evicted an entry and retained another one, accessed later
C2_Witness ==
    /\ PutCompleted
    /\ \E a \in EvictedKeys, b \in RetainedKeys :
         Get(last.pre, a).last_accessed < Get(last.pre, b).last_accessed

(***************************************************************************)
(* C3: a lookup that follows a completed put of the same params, with only *)
(* hits of that key in between, is a hit; after the n-th such hit the      *)
(* entry's access_count is 1 + n and the backing file holds the bytes      *)
(* given to put.                                                           *)
(***************************************************************************)
C3_LookupAfterPutHits ==
    (last.op = "lookup" /\ last.chained) =>
      /\ last.res = "hit"
      /\ chain.live /\ chain.hits = last.hits
      /\ Has(index, last.key)
      /\ Get(index, last.key).access_count = 1 + last.hits
      /\ files[Get(index, last.key).file_path] = chain.data

\* the second consecutive hit after a put
C3_Witness ==
    last.op = "lookup" /\ last.chained /\ last.res = "hit" /\ last.hits = 2

(***************************************************************************)
(* C4: when writing the audio file fails, put raises and commits nothing   *)
(* for its key: an index entry of that key is the one the index held       *)
(* before the put, and a sidecar entry of that key is the one the sidecar  *)
(* held before the put or the record of that earlier index entry.          *)
(***************************************************************************)
SidecarEntryIsOld(k) ==
    Has(SidecarDoc(sidecar), k) =>
      \/ /\ Has(SidecarDoc(last.preSide), k)
         /\ Get(SidecarDoc(sidecar), k) = Get(SidecarDoc(last.preSide), k)
      \/ /\ Has(last.pre, k)
         /\ Get(SidecarDoc(sidecar), k) = EncodeEntry(Get(last.pre, k))

C4_FailedPutCommitsNothing ==
    PutRaised =>
      /\ Has(index, last.key) =>
           Has(last.pre, last.key) /\ Get(index, last.key) = Get(last.pre, last.key)
      /\ SidecarEntryIsOld(last.key)

\* a put of a key already in the index failed and the old entry is kept
C4_Witness ==
    PutRaised /\ Has(last.pre, last.key) /\ Has(index, last.key)

(***************************************************************************)
(* C5: with no file deleted from outside the cache, every entry of the     *)
(* in-memory index names a backing file that exists.                       *)
(***************************************************************************)
C5_IndexEntriesBacked == AllBacked(index)

\* a remove whose os.remove failed has completed and an entry remains
C5_Witness ==
    /\ last.op = "remove" /\ last.res = "true"
    /\ index # <<>>
    /\ Has(last.pre, last.key) /\ Exists(Get(last.pre, last.key).file_path)

(***************************************************************************)
(* C8: after every completed put, lookup hit, remove and cleanup_expired   *)
(* the sidecar holds the same entries as the index, so that a restart      *)
(* followed by initialize reproduces the index.                            *)
(***************************************************************************)
MutationCompleted ==
    \/ PutCompleted
    \/ last.op = "lookup" /\ last.res = "hit"
    \/ last.op = "remove"
    \/ last.op = "cleanup"

C8_SidecarMirrorsIndex ==
    MutationCompleted =>
      /\ SidecarDoc(sidecar) = EncodeIndex(index)
      /\ Reloaded(sidecar) = index

(***************************************************************************)
(* C6: a lookup that finds its key in the index without a backing file     *)
(* removes the entry from the index and from the sidecar and returns a     *)
(* miss; all other entries stay as they were.                              *)
(***************************************************************************)
LookupPurged == last.op = "lookup" /\ last.res = "purged"

C6_MissingFilePurged ==
    LookupPurged =>
      /\ ~Has(index, last.key)
      /\ index = DelItem(last.pre, last.key)
      /\ ~Has(SidecarDoc(sidecar), last.key)

(***************************************************************************)
(* C7: after a crash at any point of an operation, a restart and           *)
(* initialize, every index entry has an existing backing file and the      *)
(* index holds exactly the entries of the sidecar found at the restart     *)
(* whose backing files exist.                                              *)
(***************************************************************************)
Recovered == last.op = "init" /\ last.res = "recovered"

InCriticalSection(t) ==
    /\ task[t].op \in {"put", "lookup", "remove", "cleanup"}
    /\ task[t].pc \in {"cs", "evict", "open", "write", "commit", "save_open",
                       "save_write", "put_done", "lookup_hit", "lookup_purged",
                       "rm_done", "clean"}

C9_MutualExclusion ==
    \A t \in Tasks :
      InCriticalSection(t) =>
        /\ lock = t
        /\ \A u \in Tasks \ {t} : ~InCriticalSection(u)

\* one coroutine is suspended in an await inside the lock, the other waits
C9_Witness ==
    \E t \in Tasks, u \in Tasks :
      /\ t # u
      /\ InCriticalSection(t)
      /\ task[t].pc = "save_write"
      /\ task[u].pc = "lock"

(***************************************************************************)
(* C10: when two concurrent generate requests for the same parameters both *)
(* miss, both generate and both put, the index afterwards holds exactly    *)
(* one entry for the key, with access_count 1 and the file content and     *)
(* file_size of the put that completed last.                               *)
(***************************************************************************)
BothGenerated ==
    /\ \A t \in Tasks :
         task[t].pc = "done" /\ task[t].missed /\ task[t].res = "ok"
    /\ \A t \in Tasks, u \in Tasks : task[t].key = task[u].key

C10_ConcurrentGenerateLastWins ==
    BothGenerated =>
      LET k == task[MainTask].key IN
      /\ Cardinality({ i \in DOMAIN index : index[i].key = k }) = 1
      /\ Get(index, k).access_count = 1
      /\ chain.live /\ chain.key = k
      /\ files[Get(index, k).file_path] = chain.data
      /\ Get(index, k).file_size = Len(chain.data)

\* the two requests stored different audio
C10_Witness ==
    /\ BothGenerated
    /\ \E t \in Tasks : task[t].data # chain.data

(***************************************************************************)
(* C11: remove(key) returns true exactly when the key was in the index     *)
(* before the call; afterwards the key is absent from the index and from   *)
(* the sidecar, also when deleting the backing file failed.                *)
(***************************************************************************)
RemoveEnded == last.op = "remove"

C11_RemoveReportsAndForgets ==
    RemoveEnded =>
      /\ (last.res = "true") <=> Has(last.pre, last.key)
      /\ ~Has(index, last.key)
      /\ ~Has(SidecarDoc(sidecar), last.key)

(***************************************************************************)
(* C12: cleanup_expired removes exactly the entries whose last_accessed is *)
(* older than the cutoff (now - max_age_days), leaves every other entry    *)
(* and its file unchanged, and returns the number of entries it removed.   *)
(***************************************************************************)
CleanupEnded == last.op = "cleanup"

C12_CleanupRemovesExactlyExpired ==
    CleanupEnded =>
      /\ index = SelectSeq(last.pre,
                           LAMBDA x : ~(x.e.last_accessed < last.cutoff))
      /\ \A i \in DOMAIN index :
           files[index[i].e.file_path] = last.preFiles[index[i].e.file_path]
      /\ last.count = Len(last.pre) - Len(index)

\* one entry was older than the cutoff and went, another stayed
C12_Witness ==
    /\ CleanupEnded
    /\ last.count = 1
    /\ index # <<>>
    /\ \E i \in DOMAIN index : index[i].e.last_accessed = last.cutoff

(***************************************************************************)
(* Pure functions are studied one call at a time: calc holds the arguments *)
(* of the call and, once the function has run, its result; the cache is at *)
(* rest meanwhile.                                                         *)
(***************************************************************************)
CacheAtRest ==
    /\ index = <<>>
    /\ files = NoFiles
    /\ sidecar = NoSidecar
    /\ lock = NoTask
    /\ clock = 0
    /\ task = [t \in Tasks |-> IdleTask]
    /\ last = NoEvent
    /\ chain = NoChain
    /\ faults = 0
    /\ boot = "running"

CacheUntouched ==
    UNCHANGED <<index, files, sidecar, lock, clock, task, last, chain, faults,
                boot>>

(***************************************************************************)
(* _generate_cache_key on a dict: a dict is the sequence of its            *)
(* <<field, value>> items in insertion order.  json.dumps(sort_keys=True)  *)
(* writes the items ordered by field name; the text is the sequence of its *)
(* tokens.  SHA-256 is a fixed function of the text giving DigestLen hex   *)
(* digits (here a positional checksum); the key is its first KeyLen        *)
(* digits.                                                                 *)
(***************************************************************************)
KeyLen == 16
DigestLen == 64
HexBase == 16

\* the fields of the maps studied, in the order of their names
FieldOrder == <<"duration", "genre", "intensity">>

FieldValues ==
    [ duration |-> {"30", "60"}, genre |-> {"sleep", "ambient"},
      intensity |-> {"low", "high"} ]

FieldRank(f) == CHOOSE i \in DOMAIN FieldOrder : FieldOrder[i] = f

\* the numeric code of a token of the text
Tokens ==
    <<"duration", "genre", "intensity", "30", "60", "sleep", "ambient", "low",
      "high">>

TokenCode(x) == CHOOSE i \in DOMAIN Tokens : Tokens[i] = x

\* every dict with the fields of FieldOrder, in every insertion order
ParamMaps ==
    LET n == Len(FieldOrder)
        Orders == { o \in [1..n -> 1..n] : \A i, j \in 1..n : o[i] = o[j] => i = j }
        Assignments == [ 1..n -> UNION { FieldValues[f] : f \in DOMAIN FieldValues } ]
    IN  { [i \in 1..n |-> <<FieldOrder[o[i]], v[o[i]]>>] :
            o \in Orders,
            v \in { a \in Assignments :
                      \A i \in 1..n : a[i] \in FieldValues[FieldOrder[i]] } }

InsertByField(s, x) ==
    LET before == SelectSeq(s, LAMBDA y : FieldRank(y[1]) <= FieldRank(x[1]))
        after  == SelectSeq(s, LAMBDA y : FieldRank(y[1]) > FieldRank(x[1]))
    IN  before \o <<x>> \o after

\* json.dumps without sort_keys: the items in insertion order
ItemsAsInserted(d) == d

RECURSIVE SortedItems(_)
\* sort_keys=True
SortedItems(d) ==
    IF d = <<>> THEN <<>>
    ELSE InsertByField(SortedItems(SubSeq(d, 1, Len(d) - 1)), d[Len(d)])

RECURSIVE JoinItems(_)
JoinItems(d) ==
    IF d = <<>> THEN <<>> ELSE <<d[1][1], d[1][2]>> \o JoinItems(Tail(d))

\* json.dumps(generation_params, sort_keys=True, ensure_ascii=False)
JsonDumps(d) == JoinItems(SortedItems(d))

RECURSIVE WeightedSum(_, _, _)
WeightedSum(text, i, j) ==
    IF i > Len(text) THEN 0
    ELSE (i + j) * TokenCode(text[i]) + WeightedSum(text, i + 1, j)

\* hashlib.sha256(text).hexdigest()
Sha256Hex(text) ==
    [ j \in 1..DigestLen |-> (WeightedSum(text, 1, j) + j) % HexBase ]

\* _generate_cache_key(generation_params)
CacheKeyOf(d) == SubSeq(Sha256Hex(JsonDumps(d)), 1, KeyLen)

KeyCalls ==
    { [fn |-> "key", a |-> a, b |-> b, ka |-> <<>>, kb |-> <<>>, done |-> FALSE] :
        a \in ParamMaps, b \in ParamMaps }

InitKey == CacheAtRest /\ calc \in KeyCalls

\* the key of each of the two maps
ComputeKey ==
    /\ calc.fn = "key"
    /\ ~calc.done
    /\ calc' = [calc EXCEPT !.ka = CacheKeyOf(calc.a), !.kb = CacheKeyOf(calc.b),
                            !.done = TRUE]
    /\ CacheUntouched

SpecKey == InitKey /\ [][ComputeKey]_vars

(***************************************************************************)
(* C13: the cache key depends only on the set of (field, value) pairs of   *)
(* the parameters: two maps with the same pairs, built in any field order, *)
(* get the identical key, of fixed length.                                 *)
(***************************************************************************)
Items(d) == { d[i] : i \in DOMAIN d }

KeysComputed == calc.fn = "key" /\ calc.done

C13_KeyIgnoresFieldOrder ==
    KeysComputed =>
      /\ Len(calc.ka) = KeyLen
      /\ Len(calc.kb) = KeyLen
      /\ Items(calc.a) = Items(calc.b) => calc.ka = calc.kb

\* the same pairs in two different orders
C13_Witness ==
    /\ KeysComputed
    /\ Items(calc.a) = Items(calc.b)
    /\ calc.a # calc.b

(***************************************************************************)
(* LongBGMGenerator (scripts/long_bgm_generator.py).  Durations are in     *)
(* seconds.  A buffer is the sequence of its samples; a sample is the      *)
(* linear combination of generated samples it was computed from: a         *)
(* sequence of terms [seg, pos, w], the sample pos of segment seg with     *)
(* weight w, an exact fraction <<numerator, denominator>>.                 *)
(***************************************************************************)
SampleRate == 2         \* self.sample_rate, scaled
MaxSegments == 4        \* the runs studied generate at most this many segments
MinDuration == 30       \* MusicGenerationRequest.duration: ge=30
MaxDuration == 7200     \* MusicGenerationRequest.duration: le=7200

RECURSIVE Gcd(_, _)
Gcd(a, b) == IF b = 0 THEN a ELSE Gcd(b, a % b)

Frac(a, b) == IF a = 0 THEN <<0, 1>> ELSE <<a \div Gcd(a, b), b \div Gcd(a, b)>>

FracMul(x, y) == Frac(x[1] * y[1], x[2] * y[2])

FracAdd(x, y) == Frac(x[1] * y[2] + y[1] * x[2], x[2] * y[2])

\* a fade-out ramp equal to the fade-in ramp
FadeOutRampRising(n) == [i \in 1..n |-> IF n = 1 THEN <<0, 1>> ELSE Frac(i - 1, n - 1)]

\* np.linspace(1.0, 0.0, n) and np.linspace(0.0, 1.0, n)
FadeOutRamp(n) == [i \in 1..n |-> IF n = 1 THEN <<1, 1>> ELSE Frac(n - i, n - 1)]

FadeInRamp(n) == [i \in 1..n |-> IF n = 1 THEN <<0, 1>> ELSE Frac(i - 1, n - 1)]

\* the audio_array of segment k when the generator returned len samples
Segment(k, len) == [j \in 1..len |-> <<[seg |-> k, pos |-> j, w |-> <<1, 1>>]>>]

\* sample * weight
Scale(sample, w) ==
    [t \in DOMAIN sample |-> [sample[t] EXCEPT !.w = FracMul(@, w)]]

\* buf * ramp, element by element
Faded(buf, ramp) == [i \in DOMAIN buf |-> Scale(buf[i], ramp[i])]

\* end_part + start_part
Summed(x, y) == [i \in DOMAIN x |-> x[i] \o y[i]]

\* one iteration of the loop of _stitch_segments: [ok, buf, faded].  With
\* n = 0 the slice combined[-0:] is the whole buffer, which numpy multiplies
\* with the empty ramp only when it has at most one sample.
StitchOne(combined, current, n) ==
    IF Len(combined) < n \/ Len(current) < n
    THEN [ok |-> TRUE, buf |-> combined \o current, faded |-> FALSE]
    ELSE IF n = 0
    THEN IF Len(combined) <= 1
         THEN [ok |-> TRUE, buf |-> current, faded |-> TRUE]
         ELSE [ok |-> FALSE, buf |-> <<>>, faded |-> TRUE]
    ELSE LET keep == Len(combined) - n
             end_part == Faded(SubSeq(combined, keep + 1, Len(combined)),
                               FadeOutRamp(n))
             start_part == Faded(SubSeq(current, 1, n), FadeInRamp(n))
         IN  [ok |-> TRUE,
              buf |-> SubSeq(combined, 1, keep) \o Summed(end_part, start_part)
                        \o SubSeq(current, n + 1, Len(current)),
              faded |-> TRUE]

RECURSIVE StitchFrom(_, _, _, _, _)
\* the loop of _stitch_segments from segment k on: [ok, buf, fades], fades the
\* number of boundaries that were crossfaded
StitchFrom(acc, fades, lens, k, n) ==
    IF k > Len(lens) THEN [ok |-> TRUE, buf |-> acc, fades |-> fades]
    ELSE LET r == StitchOne(acc, Segment(k, lens[k]), n) IN
         IF ~r.ok THEN [ok |-> FALSE, buf |-> <<>>, fades |-> fades]
         ELSE StitchFrom(r.buf, IF r.faded THEN fades + 1 ELSE fades,
                         lens, k + 1, n)

\* _stitch_segments(segments, overlap_duration)
StitchSegments(lens, ov) ==
    IF lens = <<>> THEN [ok |-> TRUE, buf |-> <<>>, fades |-> 0]
    ELSE IF Len(lens) = 1
    THEN [ok |-> TRUE, buf |-> Segment(1, lens[1]), fades |-> 0]
    ELSE StitchFrom(Segment(1, lens[1]), 0, lens, 2, ov * SampleRate)

\* a trim that keeps the whole buffer
Untrimmed(buf, target) == buf

\* combined_audio[:target_samples] when it is longer
Trimmed(buf, target) ==
    IF Len(buf) > target THEN SubSeq(buf, 1, target) ELSE buf

\* a segment count rounded down
NumSegmentsFloor(total, eff) ==
    IF eff > 0 THEN total \div eff ELSE 0 - (total \div (0 - eff))

\* int(np.ceil(total_duration / effective_segment_duration)), eff # 0
NumSegments(total, eff) ==
    IF eff > 0 THEN (total + eff - 1) \div eff
    ELSE 0 - (total \div (0 - eff))

\* the lengths a generated segment may have: the nominal one, a sample more,
\* and one too short to crossfade
SegLengths(seg, ov) ==
    {seg * SampleRate, seg * SampleRate + 1}
      \cup (IF ov > 0 THEN {ov * SampleRate - 1} ELSE {})

NoOut == <<[seg |-> 0, pos |-> 0, w |-> <<0, 1>>]>>

BgmCalls ==
    { [fn |-> "bgm", total |-> total, seg |-> seg, ov |-> ov, st |-> "start",
       n |-> 0, calls |-> 0, durs |-> <<>>, lens |-> <<>>, failed |-> FALSE,
       fades |-> 0, out |-> NoOut] :
        total \in {30, 65, 90}, seg \in {20, 30, 40}, ov \in {0, 5, 20, 30} }

InitBgm ==
    /\ CacheAtRest
    /\ calc \in { c \in BgmCalls :
                    c.seg # c.ov => NumSegments(c.total, c.seg - c.ov) <= MaxSegments }

\* lines 70-72: ZeroDivisionError when the two durations are equal
BgmPlan ==
    /\ calc.fn = "bgm"
    /\ calc.st = "start"
    /\ calc' = IF calc.seg = calc.ov
               THEN [calc EXCEPT !.st = "raised"]
               ELSE [calc EXCEPT !.st = "gen",
                                 !.n = NumSegments(calc.total, calc.seg - calc.ov)]
    /\ CacheUntouched

\* an except branch that logs and goes on with the next segment
AfterSegmentFailureSkipped(c) == [c EXCEPT !.failed = TRUE, !.n = @ - 1]

\* the except branch of the loop: log and re-raise
AfterSegmentFailure(c) == [c EXCEPT !.st = "raised", !.failed = TRUE]

\* one iteration of `for i in range(num_segments)`: the request is built
\* (and validated), the generator is awaited, the audio is decoded
BgmSegment ==
    /\ calc.fn = "bgm"
    /\ calc.st = "gen"
    /\ Len(calc.lens) < calc.n
    /\ IF calc.seg < MinDuration \/ calc.seg > MaxDuration
       THEN calc' = [calc EXCEPT !.st = "raised"]
       ELSE LET called == [calc EXCEPT !.calls = @ + 1,
                                       !.durs = Append(@, calc.seg)]
            IN  \/ \E len \in SegLengths(calc.seg, calc.ov) :
                     calc' = [called EXCEPT !.lens = Append(@, len)]
                \/ calc' = AfterSegmentFailure(called)
    /\ CacheUntouched

\* lines 107-121: stitch, trim, write the file
BgmWrite ==
    /\ calc.fn = "bgm"
    /\ calc.st = "gen"
    /\ Len(calc.lens) >= calc.n
    /\ LET r == StitchSegments(calc.lens, calc.ov) IN
       calc' = IF r.ok
               THEN [calc EXCEPT !.st = "done", !.fades = r.fades,
                                 !.out = Trimmed(r.buf, calc.total * SampleRate)]
               ELSE [calc EXCEPT !.st = "raised"]
    /\ CacheUntouched

NextBgm == BgmPlan \/ BgmSegment \/ BgmWrite

SpecBgm == InitBgm /\ [][NextBgm]_vars

(***************************************************************************)
(* C14: if the generator call for a segment fails, generate_long_bgm       *)
(* fails, makes no further generator call and writes no output file.       *)
(***************************************************************************)
SegmentFailed == calc.fn = "bgm" /\ calc.failed

C14_SegmentFailureAborts ==
    SegmentFailed =>
      /\ calc.st = "raised"
      /\ calc.calls = Len(calc.lens) + 1
      /\ calc.out = NoOut

\* the failure came after a segment had been generated
C14_Witness == SegmentFailed /\ calc.st = "raised" /\ Len(calc.lens) >= 1

(***************************************************************************)
(* C15: for overlap_duration < segment_duration a successful               *)
(* generate_long_bgm calls the generator exactly                           *)
(* ceil(total_duration / (segment_duration - overlap_duration)) times,     *)
(* each time with duration = segment_duration.                             *)
(***************************************************************************)
BgmDone == calc.fn = "bgm" /\ calc.st = "done"

\* ceil(a / b) for b > 0: the least k with k * b >= a
CeilOf(a, b) == CHOOSE k \in 0..a : k * b >= a /\ (k = 0 \/ (k - 1) * b < a)

C15_SegmentCount ==
    (BgmDone /\ calc.ov < calc.seg) =>
      /\ calc.calls = CeilOf(calc.total, calc.seg - calc.ov)
      /\ \A i \in DOMAIN calc.durs : calc.durs[i] = calc.seg

\* 65 s from 30 s segments overlapping by 5 s: three calls
C15_Witness ==
    /\ BgmDone
    /\ calc.total = 65 /\ calc.seg = 30 /\ calc.ov = 5
    /\ calc.calls = 3

(***************************************************************************)
(* C16: the buffer written has length min(L, total_duration * sample_rate) *)
(* where L is the sum of the segment lengths minus overlap_samples for     *)
(* every crossfaded boundary: trimmed when longer, never padded.           *)
(***************************************************************************)
RECURSIVE SumOf(_)
SumOf(s) == IF s = <<>> THEN 0 ELSE s[1] + SumOf(Tail(s))

StitchedLength == SumOf(calc.lens) - calc.fades * calc.ov * SampleRate

TargetSamples == calc.total * SampleRate

C16_WrittenLength ==
    BgmDone =>
      Len(calc.out) = IF StitchedLength < TargetSamples
                      THEN StitchedLength ELSE TargetSamples

\* a crossfaded buffer that was longer than requested
C16_Witness ==
    /\ BgmDone
    /\ calc.fades >= 1
    /\ StitchedLength > TargetSamples
    /\ Len(calc.out) = TargetSamples

(***************************************************************************)
(* C17: in every crossfaded boundary the fade-out weight and the fade-in   *)
(* weight of each offset sum to 1, the fade-out running from 1 down to 0   *)
(* and the fade-in from 0 up to 1; so the weights of every written sample  *)
(* sum to 1.                                                               *)
(***************************************************************************)
RECURSIVE WeightOf(_)
WeightOf(sample) ==
    IF sample = <<>> THEN <<0, 1>>
    ELSE FracAdd(sample[1].w, WeightOf(Tail(sample)))

\* x <= y for fractions
FracLeq(x, y) == x[1] * y[2] <= y[1] * x[2]

Crossfaded == BgmDone /\ calc.fades >= 1 /\ calc.ov >= 1

C17_CrossfadeWeightsComplement ==
    Crossfaded =>
      LET n == calc.ov * SampleRate
          fo == FadeOutRamp(n)
          fi == FadeInRamp(n)
      IN  /\ \A i \in 1..n : FracAdd(fo[i], fi[i]) = <<1, 1>>
          /\ fo[1] = <<1, 1>> /\ fo[n] = <<0, 1>>
          /\ fi[1] = <<0, 1>> /\ fi[n] = <<1, 1>>
          /\ \A i \in 1..(n - 1) : FracLeq(fo[i + 1], fo[i]) /\ FracLeq(fi[i], fi[i + 1])
          /\ \A j \in DOMAIN calc.out : WeightOf(calc.out[j]) = <<1, 1>>

\* a written sample mixes the tail of one segment with the head of the next
C17_Witness ==
    /\ Crossfaded
    /\ \E j \in DOMAIN calc.out :
         /\ Len(calc.out[j]) = 2
         /\ calc.out[j][1].seg # calc.out[j][2].seg
         /\ calc.out[j][1].w # <<0, 1>>
         /\ calc.out[j][2].w # <<0, 1>>

(***************************************************************************)
(* C18: when the external generator or the synthesizer cannot produce      *)
(* audio for a request, generate_music returns a failed result with a      *)
(* message and the index, the audio files and the sidecar are as they were *)
(* before the request.                                                     *)
(***************************************************************************)
GenerateEnded == last.op = "generate"

CacheAsFound ==
    /\ index = last.req.index
    /\ files = last.req.files
    /\ sidecar = last.req.sidecar

C18_GenerationFailureLeavesCache ==
    (GenerateEnded /\ (last.acRaised \/ last.synRaised)) =>
      /\ last.res = "failed"
      /\ CacheAsFound

(***************************************************************************)
(* C19: no cache primitive masks an error: when persisting the sidecar     *)
(* fails during put, lookup, remove or cleanup_expired, or loading it      *)
(* fails during initialize, the operation reports the failure to its       *)
(* caller instead of completing as a success.                              *)
(***************************************************************************)
SidecarSaveFailed ==
    /\ last.op \in {"put", "lookup", "remove", "cleanup"}
    /\ last.sfail

SidecarLoadFailed == last.op = "init" /\ last.preSide.st = "torn"

C19_SidecarErrorsReported ==
    (SidecarSaveFailed \/ SidecarLoadFailed) => last.res = "raise"

(***************************************************************************)
(* ProgrammaticMusicGenerator.generate_sine_wave and the validation of     *)
(* MusicGenerationRequest.  A duration is a float: here a number of half   *)
(* seconds.  int() truncates toward zero and range() of a non-positive     *)
(* count is empty.  A sample is amplitude * sin(2 pi f t): its amplitude    *)
(* and the phase of f * t within one second of samples.                    *)
(***************************************************************************)
SynthRate == 3

TruncDiv(x, y) == IF x >= 0 THEN x \div y ELSE 0 - ((0 - x) \div y)

NumSamples(halves) == TruncDiv(SynthRate * halves, 2)

GenerateSineWave(frequency, halves, amplitude) ==
    [ i \in 1..NumSamples(halves) |->
        [amp |-> amplitude, phase |-> (frequency * (i - 1)) % SynthRate] ]

\* Field(default=1800, ge=30, le=7200)
DurationValid(d) == MinDuration <= d /\ d <= MaxDuration

SineCalls ==
    { [fn |-> "sine", frequency |-> f, halves |-> h, amplitude |-> a,
       st |-> "start", samples |-> <<>>] :
        f \in 1..3, h \in (0 - 3)..4, a \in 1..3 }

RequestCalls ==
    { [fn |-> "request", duration |-> d, st |-> "received", samples |-> <<>>] :
        d \in {0 - 1, 0, MinDuration - 1, MinDuration, MinDuration + 1} }

InitSine == CacheAtRest /\ calc \in (SineCalls \cup RequestCalls)

\* the call returns its list; no statement of it raises
SineWave ==
    /\ calc.fn = "sine"
    /\ calc.st = "start"
    /\ calc' = [calc EXCEPT
                  !.st = "returned",
                  !.samples = GenerateSineWave(calc.frequency, calc.halves,
                                               calc.amplitude)]
    /\ CacheUntouched

\* pydantic builds the request before the endpoint body runs
ValidateRequest ==
    /\ calc.fn = "request"
    /\ calc.st = "received"
    /\ calc' = [calc EXCEPT !.st = IF DurationValid(calc.duration)
                                   THEN "accepted" ELSE "rejected"]
    /\ CacheUntouched

\* duration_per_track = float(request.duration): the first base track
SynthesizeRequest ==
    /\ calc.fn = "request"
    /\ calc.st = "accepted"
    /\ calc' = [calc EXCEPT
                  !.st = "synthesized",
                  !.samples = GenerateSineWave(1, 2 * calc.duration, 1)]
    /\ CacheUntouched

NextSine == SineWave \/ ValidateRequest \/ SynthesizeRequest

SpecSine == InitSine /\ [][NextSine]_vars

(***************************************************************************)
(* C20: the sine layer called with a duration of zero or less fails with   *)
(* an error instead of returning a buffer, and a generation request with a *)
(* non-positive duration is rejected before any sample is synthesized and  *)
(* before any cache file or index changes.                                 *)
(***************************************************************************)
SineLayerEnded == calc.fn = "sine" /\ calc.st # "start"

RequestHandled == calc.fn = "request" /\ calc.st # "received"

C20_NonPositiveDurationRejected ==
    /\ (SineLayerEnded /\ calc.halves <= 0) => calc.st = "raised"
    /\ (RequestHandled /\ calc.duration <= 0) =>
          /\ calc.st = "rejected"
          /\ calc.samples = <<>>
          /\ index = <<>> /\ files = NoFiles /\ sidecar = NoSidecar

(***************************************************************************)
(* ProgrammaticMusicGenerator.mix_tracks, apply_fade and samples_to_wav.   *)
(* A sample is an exact fraction <<numerator, denominator>> with a          *)
(* positive denominator; a buffer is a sequence of samples.  fade_samples  *)
(* is int(sample_rate * fade_duration) with the duration in half seconds.  *)
(***************************************************************************)
MaxTracks == 2
MaxTrackLen == 2
MaxBufLen == 8
PcmMax == 32767

FracAbs(x) == <<IF x[1] < 0 THEN 0 - x[1] ELSE x[1], x[2]>>

\* x / y for y > 0
FracDiv(x, y) == Frac(x[1] * y[2], x[2] * y[1])

One == <<1, 1>>

SeqsUpTo(S, n) == UNION { [1..k -> S] : k \in 0..n }

\* max of a non-empty set of numbers
MaxOf(S) == CHOOSE m \in S : \A x \in S : x <= m

\* volumes[i] if i < len(volumes) else 1.0; volumes None is a list of ones
VolumeOf(volumes, i) ==
    IF volumes.given /\ i <= Len(volumes.list) THEN volumes.list[i] ELSE One

\* mixed[j] after the tracks from the i-th on have been added
RECURSIVE MixedAt(_, _, _, _)
MixedAt(tracks, volumes, j, i) ==
    IF i > Len(tracks) THEN <<0, 1>>
    ELSE FracAdd(IF j <= Len(tracks[i])
                 THEN FracMul(tracks[i][j], VolumeOf(volumes, i))
                 ELSE <<0, 1>>,
                 MixedAt(tracks, volumes, j, i + 1))

\* lines 134-141: the weighted sum, as long as the longest track
MixedSum(tracks, volumes) ==
    [ j \in 1..MaxOf({ Len(tracks[i]) : i \in DOMAIN tracks }) |->
        MixedAt(tracks, volumes, j, 1) ]

\* max(abs(s) for s in mixed) if mixed else 1.0
PeakOf(mixed) ==
    IF mixed = <<>> THEN One
    ELSE CHOOSE p \in { FracAbs(mixed[j]) : j \in DOMAIN mixed } :
           \A j \in DOMAIN mixed : FracLeq(FracAbs(mixed[j]), p)

\* a mix returned as summed
NotNormalized(mixed) == mixed

\* lines 144-146
Normalized(mixed) ==
    IF ~FracLeq(PeakOf(mixed), One)
    THEN [j \in DOMAIN mixed |-> FracDiv(mixed[j], PeakOf(mixed))]
    ELSE mixed

MixTracks(tracks, volumes) ==
    IF tracks = <<>> THEN <<>> ELSE Normalized(MixedSum(tracks, volumes))

\* a fade-in whose first factor is not zero
FadeInFactorFromOne(i, n) == Frac(i + 1, n)

\* fade-in and fade-out factors of index i (from 0) of a buffer of len samples
FadeInFactor(i, n) == Frac(i, n)

\* a fade-out that reaches zero on the last sample
FadeOutFactorToZero(i, len, n) == Frac(len - i - 1, n)

FadeOutFactor(i, len, n) == Frac(len - i, n)

\* result[i] is samples[k] with k = i + 1
ApplyFade(samples, n) ==
    LET len == Len(samples)
        lo == IF n < len THEN n ELSE len
        start == IF len - n > 0 THEN len - n ELSE 0
        fadedIn == [ k \in DOMAIN samples |->
                       IF k - 1 < lo
                       THEN FracMul(samples[k], FadeInFactor(k - 1, n))
                       ELSE samples[k] ]
    IN  [ k \in DOMAIN samples |->
            IF k - 1 >= start
            THEN FracMul(fadedIn[k], FadeOutFactor(k - 1, len, n))
            ELSE fadedIn[k] ]


Clamp(x) == IF x > PcmMax THEN PcmMax ELSE IF x < 0 - PcmMax - 1 THEN 0 - PcmMax - 1 ELSE x

\* int(sample * 32767): the product cut toward zero
PcmOf(sample) == Clamp(TruncDiv(sample[1] * PcmMax, sample[2]))

\* the frames handed to writeframes: one <<left, right>> pair per sample
SamplesToWav(samples) ==
    [k \in DOMAIN samples |-> <<PcmOf(samples[k]), PcmOf(samples[k])>>]

MixSamples == {<<0 - 1, 1>>, <<1, 2>>, <<1, 1>>}

MixVolumes == {<<1, 2>>, <<2, 1>>}

PcmSamples ==
    {<<0 - 2, 1>>, <<0 - 1, 1>>, <<0 - 2, 3>>, <<0, 1>>, <<1, 2>>, <<2, 3>>,
     <<1, 1>>, <<2, 1>>}

MixCalls ==
    { [fn |-> "mix", tracks |-> ts, volumes |-> v, st |-> "start", out |-> <<>>] :
        ts \in SeqsUpTo(SeqsUpTo(MixSamples, MaxTrackLen), MaxTracks),
        v \in {[given |-> FALSE, list |-> <<>>]} \cup
              { [given |-> TRUE, list |-> l] : l \in SeqsUpTo(MixVolumes, MaxTracks) } }

\* buffers that alternate two sample values
FadeCalls ==
    { [fn |-> "fade", samples |-> [k \in 1..len |-> IF k % 2 = 1 THEN a ELSE b],
       n |-> NumSamples(h), st |-> "start", out |-> <<>>] :
        len \in 0..MaxBufLen, a \in MixSamples, b \in MixSamples, h \in (0 - 1)..3 }

WavCalls ==
    { [fn |-> "wav", samples |-> s, st |-> "start", out |-> <<>>] :
        s \in SeqsUpTo(PcmSamples, MaxTrackLen) }

InitDsp == CacheAtRest /\ calc \in (MixCalls \cup FadeCalls \cup WavCalls)

Mix ==
    /\ calc.fn = "mix"
    /\ calc.st = "start"
    /\ calc' = [calc EXCEPT !.st = "returned",
                            !.out = MixTracks(calc.tracks, calc.volumes)]
    /\ CacheUntouched

Fade ==
    /\ calc.fn = "fade"
    /\ calc.st = "start"
    /\ calc' = [calc EXCEPT !.st = "returned",
                            !.out = ApplyFade(calc.samples, calc.n)]
    /\ CacheUntouched

EncodeWav ==
    /\ calc.fn = "wav"
    /\ calc.st = "start"
    /\ calc' = [calc EXCEPT !.st = "returned", !.out = SamplesToWav(calc.samples)]
    /\ CacheUntouched

NextDsp == Mix \/ Fade \/ EncodeWav

SpecDsp == InitDsp /\ [][NextDsp]_vars

(***************************************************************************)
(* C21: every sample returned by mix_tracks has absolute value at most 1,  *)
(* and when the weighted sum of the tracks already peaks at 1 or less the  *)
(* output is that sum unchanged.                                           *)
(***************************************************************************)
MixEnded == calc.fn = "mix" /\ calc.st = "returned"

C21_MixNeverClips ==
    (MixEnded /\ calc.tracks # <<>>) =>
      LET sum == MixedSum(calc.tracks, calc.volumes)
      IN  /\ Len(calc.out) = Len(sum)
          /\ \A j \in DOMAIN calc.out : FracLeq(FracAbs(calc.out[j]), One)
          /\ (\A j \in DOMAIN sum : FracLeq(FracAbs(sum[j]), One)) => calc.out = sum

\* a mix of two tracks of different lengths whose sum peaks above 1
C21_Witness ==
    /\ MixEnded
    /\ Len(calc.tracks) = 2
    /\ Len(calc.tracks[1]) # Len(calc.tracks[2])
    /\ \E j \in DOMAIN calc.out :
         ~FracLeq(FracAbs(MixedSum(calc.tracks, calc.volumes)[j]), One)
    /\ \E j \in DOMAIN calc.out : calc.out[j] \notin {One, <<0 - 1, 1>>, <<0, 1>>}


(***************************************************************************)
(* C22: apply_fade on a buffer longer than twice the fade length returns a *)
(* buffer of the same length whose sample 0 is 0 and whose samples with    *)
(* index in [fade_samples, len - fade_samples) equal the input samples.    *)
(***************************************************************************)
FadeEnded == calc.fn = "fade" /\ calc.st = "returned"

LongerThanTwoFades == Len(calc.samples) > 2 * calc.n

MiddleUnchanged ==
    /\ Len(calc.out) = Len(calc.samples)
    /\ \A k \in DOMAIN calc.samples :
         (calc.n <= k - 1 /\ k - 1 < Len(calc.samples) - calc.n) =>
             calc.out[k] = calc.samples[k]

\* the statement for every fade length, a fade of no samples included
C22_FadeFrameAnyLength ==
    (FadeEnded /\ Len(calc.samples) > 0 /\ LongerThanTwoFades) =>
        calc.out[1] = <<0, 1>> /\ MiddleUnchanged

\* the statement for a fade of at least one sample
C22_FadeFrame ==
    (FadeEnded /\ calc.n >= 1 /\ LongerThanTwoFades) =>
        calc.out[1] = <<0, 1>> /\ MiddleUnchanged

\* a fade of three samples on a buffer with a middle whose first sample is not 0
C22_Witness ==
    /\ FadeEnded
    /\ calc.n = 3
    /\ Len(calc.samples) = MaxBufLen
    /\ calc.samples[1] # <<0, 1>>
    /\ calc.out # calc.samples


(***************************************************************************)
(* C23: the envelopes of apply_fade are complementary: at every offset j   *)
(* of the fade, the fade-out factor applied at offset j of the trailing    *)
(* region plus the fade-in factor applied at offset j of the leading       *)
(* region is 1, and the fade-out factors start at 1 and fall toward 0.     *)
(***************************************************************************)
\* offsets of the fade at which both factors are applied to the buffer
FadeOffsets ==
    { j \in 0..(calc.n - 1) :
        j < Len(calc.samples) /\ Len(calc.samples) - calc.n + j >= 0 }

FadeOutAt(j) == FadeOutFactor(Len(calc.samples) - calc.n + j, Len(calc.samples), calc.n)

C23_FadeEnvelopesComplement ==
    (FadeEnded /\ calc.n >= 1) =>
        /\ \A j \in FadeOffsets :
             /\ FracAdd(FadeOutAt(j), FadeInFactor(j, calc.n)) = One
             /\ FracLeq(FadeOutAt(j), One) /\ ~FracLeq(FadeOutAt(j), <<0, 1>>)
             /\ FadeInFactor(j, calc.n) = <<0, 1>> <=> j = 0
        /\ \A j \in FadeOffsets, l \in FadeOffsets :
             j < l => ~FracLeq(FadeOutAt(j), FadeOutAt(l))
        /\ 0 \in FadeOffsets => FadeOutAt(0) = One
        /\ \A j \in FadeOffsets :
             /\ calc.out[j + 1] =
                  FracMul(calc.samples[j + 1],
                          IF j >= Len(calc.samples) - calc.n
                          THEN FracMul(FadeInFactor(j, calc.n),
                                       FadeOutFactor(j, Len(calc.samples), calc.n))
                          ELSE FadeInFactor(j, calc.n))

\* a fade of three samples applied at both ends of a longer buffer
C23_Witness ==
    /\ FadeEnded
    /\ calc.n = 3
    /\ FadeOffsets = 0..2
    /\ Len(calc.samples) >= 2 * calc.n
    /\ calc.out[Len(calc.out)] = FracMul(calc.samples[Len(calc.out)], <<1, 3>>)


(***************************************************************************)
(* C24: samples_to_wav writes one frame per input sample, in order, whose  *)
(* left and right values are both round(s * 32767) clamped to              *)
(* [-32768, 32767].                                                        *)
(***************************************************************************)
WavEnded == calc.fn = "wav" /\ calc.st = "returned"

\* the nearest integer of a fraction (halves go up)
RoundOf(x) == (2 * x[1] + x[2]) \div (2 * x[2])

C24_FramesAreRoundedSamples ==
    WavEnded =>
        /\ Len(calc.out) = Len(calc.samples)
        /\ \A k \in DOMAIN calc.samples :
             calc.out[k] = << Clamp(RoundOf(<<calc.samples[k][1] * PcmMax, calc.samples[k][2]>>)),
                              Clamp(RoundOf(<<calc.samples[k][1] * PcmMax, calc.samples[k][2]>>)) >>


(***************************************************************************)
(* C25: get_cache_metrics returns total_tracks equal to the number of      *)
(* index entries and a hit rate equal to the number of entries with        *)
(* access_count > 1 divided by the number of entries, 0 for an empty       *)
(* cache, and changes nothing in the index, the files or the sidecar.      *)
(***************************************************************************)
MetricsEnded == last.op = "metrics"

HitEntries == { i \in DOMAIN index : index[i].e.access_count > 1 }

C25_MetricsCountAndHitRate ==
    MetricsEnded =>
        /\ last.metrics.total_cached_tracks = Len(index)
        /\ last.metrics.cache_hit_rate[1] * (IF index = <<>> THEN 1 ELSE Len(index))
             = Cardinality(HitEntries) * last.metrics.cache_hit_rate[2]
        /\ last.metrics.cache_hit_rate[2] > 0
        /\ index = last.pre /\ files = last.preFiles /\ sidecar = last.preSide

\* two entries, one of them looked up since it was put: a rate of one half
C25_Witness ==
    /\ MetricsEnded
    /\ Len(index) = 2
    /\ Cardinality(HitEntries) = 1
    /\ last.metrics.cache_hit_rate = <<1, 2>>


(***************************************************************************)
(* C26: whenever no operation is inside the lock, a failed or an           *)
(* overwriting put just ended included, each index entry's file_size is    *)
(* the byte length of its backing file on disk.                            *)
(***************************************************************************)
SizeMatchesFile(x) ==
    Exists(x.e.file_path) /\ x.e.file_size = Len(files[x.e.file_path])

C26_FileSizeMatchesDisk ==
    lock = NoTask => \A i \in DOMAIN index : SizeMatchesFile(index[i])


(***************************************************************************)
(* C27: a put evicts nothing when the index total plus the length of the   *)
(* new bytes is within max_size_bytes; otherwise it evicts exactly the     *)
(* shortest prefix of the entries in ascending last_accessed order after   *)
(* which the total plus the new length fits, all entries if it never fits. *)
(* Every eviction is over before the new file is written and the new       *)
(* entry committed.                                                        *)
(***************************************************************************)
Ascending(s) ==
    \A i \in DOMAIN s, j \in DOMAIN s :
        i < j => s[i].e.last_accessed <= s[j].e.last_accessed

\* the length of the shortest prefix of s whose removal from d makes n fit
PrefixNeeded(d, s, n) ==
    LET fit == { m \in 0..Len(s) :
                   TotalSize(d) - TotalSize(SubSeq(s, 1, m)) + n <= MaxSizeBytes }
    IN  IF fit = {} THEN Len(s) ELSE CHOOSE m \in fit : \A k \in fit : m <= k

\* what a put that evicted the first nev entries of cand did to d
EvictedExactly(d, cand, nev, n, key) ==
    IF TotalSize(d) + n <= MaxSizeBytes
    THEN nev = 0
    ELSE /\ Ascending(cand)
         /\ Len(cand) = Len(d)
         /\ { cand[i] : i \in DOMAIN cand } = { d[i] : i \in DOMAIN d }
         /\ nev = PrefixNeeded(d, cand, n)

PutWriting(t) ==
    /\ task[t].op = "put"
    /\ task[t].pc \in {"write", "commit"}

C27_EvictsShortestLruPrefix ==
    /\ PutEnded =>
         /\ EvictedExactly(last.pre, last.cand, last.nev, Len(last.data), last.key)
         /\ \A x \in { last.pre[i] : i \in DOMAIN last.pre } :
              x.key # last.key =>
                (Has(index, x.key) <=> x.key \notin EvictedKeys)
    /\ \A t \in Tasks :
         PutWriting(t) =>
           /\ EvictedExactly(task[t].pre, task[t].cand, task[t].nev,
                             Len(task[t].data), task[t].key)
           /\ \A x \in { task[t].pre[i] : i \in DOMAIN task[t].pre } :
                Has(index, x.key) <=>
                  x.key \notin { task[t].cand[i].key : i \in 1..task[t].nev }

\* a put into a full cache of two entries evicted the older one, not its own
\* key, and stopped there
C27_Witness ==
    /\ PutCompleted
    /\ Len(last.pre) = 2
    /\ last.nev = 1
    /\ last.cand[1].key # last.key
    /\ Has(index, last.cand[2].key)


(***************************************************************************)
(* C28: a lookup hit changes only the hit entry's last_accessed, to a time *)
(* not earlier than before, and its access_count, by exactly +1: its       *)
(* created_at, file_size, file_path and file bytes, and every other entry  *)
(* and file, are unchanged.                                                *)
(***************************************************************************)
LookupHit == last.op = "lookup" /\ last.res = "hit"

C28_HitTouchesOnlyAccessFields ==
    LookupHit =>
        /\ files = last.preFiles
        /\ Len(index) = Len(last.pre)
        /\ \A i \in DOMAIN last.pre :
             IF last.pre[i].key = last.key
             THEN /\ index[i].key = last.key
                  /\ index[i].e.access_count = last.pre[i].e.access_count + 1
                  /\ index[i].e.last_accessed >= last.pre[i].e.last_accessed
                  /\ index[i].e.created_at = last.pre[i].e.created_at
                  /\ index[i].e.file_size = last.pre[i].e.file_size
                  /\ index[i].e.file_path = last.pre[i].e.file_path
             ELSE index[i] = last.pre[i]

\* a hit, at a later time, on the first of two entries
C28_Witness ==
    /\ LookupHit
    /\ Len(index) = 2
    /\ index[1].key = last.key
    /\ index[1].e.last_accessed > last.pre[1].e.last_accessed


(***************************************************************************)
(* SpecPerm: the one caller, and a backing file may lose its read          *)
(* permission from outside the cache: it still exists, its bytes cannot be *)
(* read.                                                                   *)
(***************************************************************************)
Unreadable == <<0 - 2>>

MakeUnreadable ==
    /\ \E p \in Paths :
         /\ Exists(p)
         /\ files[p] # Unreadable
         /\ files' = [files EXCEPT ![p] = Unreadable]
    /\ last' = NoEvent
    /\ chain' = NoChain
    /\ UNCHANGED <<index, sidecar, lock, clock, task, faults, boot, calc>>

NextPerm == Next \/ MakeUnreadable

SpecPerm == Init /\ [][NextPerm]_vars

(***************************************************************************)
(* C29: a lookup of an entry whose backing file exists but cannot be read  *)
(* is treated as a lookup of an entry whose file is missing: the entry is  *)
(* purged and the lookup returns a miss, not a hit.                        *)
(***************************************************************************)
LookupEnded == last.op = "lookup"

LookedUpUnreadable ==
    /\ LookupEnded
    /\ Has(last.pre, last.key)
    /\ last.preFiles[Get(last.pre, last.key).file_path] = Unreadable

C29_UnreadableFilePurged ==
    LookedUpUnreadable => last.res # "hit" /\ ~Has(index, last.key)


(***************************************************************************)
(* C30: when the lookup of generate_music hits, neither the external       *)
(* generator nor the synthesizer is invoked and no put occurs for the      *)
(* request; the response is a success whose track id is the cache key.     *)
(***************************************************************************)
\* the request found an entry of its key with a backing file
FoundCached ==
    /\ GenerateEnded
    /\ Has(last.req.index, last.key)
    /\ last.req.files[Get(last.req.index, last.key).file_path] # NoFile

C30_HitSkipsGeneration ==
    FoundCached =>
        /\ last.res = "cached"
        /\ last.trackId = last.key
        /\ ~last.missed /\ ~last.acRaised /\ ~last.synRaised
        /\ last.data = <<>>
        /\ files = last.req.files
        /\ Keys(index) = Keys(last.req.index)
        /\ \A k \in Keys(index) :
             /\ Get(index, k).created_at = Get(last.req.index, k).created_at
             /\ Get(index, k).file_size = Get(last.req.index, k).file_size
             /\ Get(index, k).access_count =
                  Get(last.req.index, k).access_count + (IF k = last.key THEN 1 ELSE 0)

\* a request answered from an entry that an earlier request generated
C30_Witness ==
    /\ FoundCached
    /\ last.res = "cached"
    /\ Len(index) = 2
    /\ Get(index, last.key).access_count = 2


(***************************************************************************)
(* C31: when the next segment is stitched, if the accumulated buffer or    *)
(* the segment has fewer than overlap_samples samples the two are joined   *)
(* by plain concatenation; otherwise only the crossfade region of          *)
(* overlap_samples samples differs from the sources, and the samples       *)
(* before it and after it are copied unchanged and in order from the       *)
(* accumulated buffer and from the new segment.                            *)
(***************************************************************************)
\* _stitch_segments has run on two segments or more
StitchAttempted ==
    /\ calc.fn = "bgm"
    /\ calc.st \in {"done", "raised"}
    /\ ~calc.failed
    /\ Len(calc.lens) >= 2

\* the accumulated buffer before segment k is stitched
Accumulated(k) == StitchSegments(SubSeq(calc.lens, 1, k - 1), calc.ov)

StitchStepFrame(k) ==
    LET n == calc.ov * SampleRate
        acc == Accumulated(k).buf
        cur == Segment(k, calc.lens[k])
        r == StitchOne(acc, cur, n)
    IN  /\ r.ok
        /\ IF Len(acc) < n \/ Len(cur) < n
           THEN r.buf = acc \o cur
           ELSE /\ Len(r.buf) = Len(acc) + Len(cur) - n
                /\ \A j \in 1..(Len(acc) - n) : r.buf[j] = acc[j]
                /\ \A j \in (n + 1)..Len(cur) : r.buf[Len(acc) - n + j] = cur[j]

C31_StitchCopiesOutsideCrossfade ==
    StitchAttempted =>
        \A k \in 2..Len(calc.lens) : Accumulated(k).ok => StitchStepFrame(k)


(***************************************************************************)
(* C40: with overlap_duration = 0 the stitcher joins the segments by plain *)
(* concatenation: it completes without error, and the stitched buffer has  *)
(* the sum of the segment lengths with every sample copied unchanged.      *)
(***************************************************************************)
RECURSIVE Concatenated(_, _)
\* segments k.. of the generated lengths, one after the other
Concatenated(lens, k) ==
    IF k > Len(lens) THEN <<>>
    ELSE Segment(k, lens[k]) \o Concatenated(lens, k + 1)

C40_ZeroOverlapConcatenates ==
    (StitchAttempted /\ calc.ov = 0) =>
        /\ calc.st = "done"
        /\ StitchSegments(calc.lens, calc.ov).ok
        /\ StitchSegments(calc.lens, calc.ov).buf = Concatenated(calc.lens, 1)
        /\ Len(StitchSegments(calc.lens, calc.ov).buf) = SumOf(calc.lens)


(***************************************************************************)
(* C32: when the fade is longer than half the buffer, apply_fade touches   *)
(* no index outside [0, len) and scales each sample by at most one of the  *)
(* two ramps: no sample is attenuated by both the fade-in and the          *)
(* fade-out.                                                               *)
(***************************************************************************)
FadeExceedsHalf == FadeEnded /\ calc.n >= 1 /\ 2 * calc.n > Len(calc.samples)

\* the sample as it was, or scaled by its fade-in or by its fade-out factor
ScaledByOneRamp(k) ==
    LET len == Len(calc.samples) IN
    \/ calc.out[k] = calc.samples[k]
    \/ /\ k - 1 < calc.n
       /\ calc.out[k] = FracMul(calc.samples[k], FadeInFactor(k - 1, calc.n))
    \/ /\ k - 1 >= len - calc.n
       /\ calc.out[k] = FracMul(calc.samples[k], FadeOutFactor(k - 1, len, calc.n))

C32_ShortBufferFadedOnce ==
    FadeExceedsHalf =>
        /\ DOMAIN calc.out = DOMAIN calc.samples
        /\ \A k \in DOMAIN calc.samples : ScaledByOneRamp(k)


(***************************************************************************)
(* _generate_programmatic_music up to the mixed and faded buffer: the      *)
(* genre preset, one sine layer per base and harmonic frequency, a brown   *)
(* noise layer when noise_mix > 0, mix_tracks with volumes of 1.0 and a    *)
(* fade of 10 s.  sin is a table of fractions over the phase; the random   *)
(* walk of the noise is one of Walks.                                      *)
(***************************************************************************)
FadeSeconds == 10

Genres ==
    {"sleep", "ambient", "white_noise", "nature_sounds", "meditation",
     "lullaby", "binaural"}

Intensities == {"low", "medium", "high"}

SleepConfig ==
    [base_frequencies |-> <<40, 60, 80, 110>>, harmonics |-> <<220, 440, 880>>,
     noise_mix |-> <<3, 10>>]

\* self.genre_configs.get(request.genre, self.genre_configs[SLEEP])
GenreConfig(genre) ==
    CASE genre = "ambient" ->
           [base_frequencies |-> <<55, 110, 220>>, harmonics |-> <<330, 660, 1320>>,
            noise_mix |-> <<1, 5>>]
      [] genre = "white_noise" ->
           [base_frequencies |-> <<>>, harmonics |-> <<>>, noise_mix |-> <<1, 1>>]
      [] genre = "nature_sounds" ->
           [base_frequencies |-> <<200, 400, 800>>, harmonics |-> <<1600, 3200>>,
            noise_mix |-> <<4, 5>>]
      [] genre = "meditation" ->
           [base_frequencies |-> <<256, 432, 528>>, harmonics |-> <<864, 1728>>,
            noise_mix |-> <<1, 10>>]
      [] OTHER -> SleepConfig

IntensityMultiplier(intensity) ==
    CASE intensity = "low" -> <<1, 2>>
      [] intensity = "medium" -> <<4, 5>>
      [] intensity = "high" -> <<1, 1>>

\* math.sin(2 * pi * f * t) by the phase of f * t
SinTable(phase) ==
    IF phase = 0 \/ 2 * phase = SynthRate THEN <<0, 1>>
    ELSE IF 2 * phase < SynthRate THEN <<7, 8>>
    ELSE <<0 - 7, 8>>

SineTrack(frequency, halves, amplitude) ==
    LET wave == GenerateSineWave(frequency, halves, amplitude) IN
    [k \in DOMAIN wave |-> FracMul(wave[k].amp, SinTable(wave[k].phase))]

Walks == {"still", "wrap"}

\* brown_value stays 0, or steps below 0 and back: % 1.0 wraps it to 0.99
BrownValue(walk, i) ==
    IF walk = "wrap" /\ i % 2 = 0 THEN <<99, 100>> ELSE <<0, 1>>

\* generate_brown_noise(duration, amplitude)
GenerateBrownNoise(halves, amplitude, walk) ==
    [k \in 1..NumSamples(halves) |-> FracMul(BrownValue(walk, k - 1), amplitude)]

\* a preset without its noise layer
PresetTracksSinesOnly(genre, intensity, halves, walk) ==
    LET config == GenreConfig(genre)
        m == IntensityMultiplier(intensity)
    IN  [i \in DOMAIN config.base_frequencies |->
           SineTrack(config.base_frequencies[i], halves, FracMul(<<3, 20>>, m))]
        \o [i \in DOMAIN config.harmonics |->
           SineTrack(config.harmonics[i], halves, FracMul(<<2, 25>>, m))]

\* lines 285-310: tracks
PresetTracks(genre, intensity, halves, walk) ==
    LET config == GenreConfig(genre)
        m == IntensityMultiplier(intensity)
    IN  [i \in DOMAIN config.base_frequencies |->
           SineTrack(config.base_frequencies[i], halves, FracMul(<<3, 20>>, m))]
        \o [i \in DOMAIN config.harmonics |->
           SineTrack(config.harmonics[i], halves, FracMul(<<2, 25>>, m))]
        \o (IF config.noise_mix[1] > 0
            THEN <<GenerateBrownNoise(halves,
                      FracMul(FracMul(<<1, 10>>, config.noise_mix), m), walk)>>
            ELSE <<>>)

PresetCalls ==
    { [fn |-> "preset", genre |-> g, intensity |-> i, duration |-> d, walk |-> w,
       st |-> "start", layers |-> 0, out |-> <<>>] :
        g \in Genres, i \in Intensities, d \in {MinDuration, MinDuration + 1},
        w \in Walks }

InitPreset == CacheAtRest /\ calc \in PresetCalls

\* lines 272-318: the tracks, mix_tracks, apply_fade
SynthesizePreset ==
    /\ calc.fn = "preset"
    /\ calc.st = "start"
    /\ LET tracks == PresetTracks(calc.genre, calc.intensity, 2 * calc.duration,
                                  calc.walk)
           volumes == [given |-> TRUE, list |-> [i \in DOMAIN tracks |-> One]]
       IN  calc' = [calc EXCEPT
                      !.st = "returned",
                      !.layers = Len(tracks),
                      !.out = ApplyFade(MixTracks(tracks, volumes),
                                        NumSamples(2 * FadeSeconds))]
    /\ CacheUntouched

SpecPreset == InitPreset /\ [][SynthesizePreset]_vars

(***************************************************************************)
(* C33: for every configured genre, the pure-noise preset included, and    *)
(* every intensity, the preset pipeline completes without error with one   *)
(* sine layer per base and harmonic frequency plus one noise layer when    *)
(* noise_mix > 0, and yields duration * sample_rate samples, each within   *)
(* [-1, 1].                                                                *)
(***************************************************************************)
PresetEnded == calc.fn = "preset" /\ calc.st # "start"

C33_PresetPipelineYieldsFullBuffer ==
    PresetEnded =>
        LET config == GenreConfig(calc.genre) IN
        /\ calc.st = "returned"
        /\ calc.layers = Len(config.base_frequencies) + Len(config.harmonics)
                           + (IF config.noise_mix[1] > 0 THEN 1 ELSE 0)
        /\ Len(calc.out) = calc.duration * SynthRate
        /\ \A k \in DOMAIN calc.out : FracLeq(FracAbs(calc.out[k]), One)

\* the pure-noise preset: a single layer, and a sample that is not silent
C33_Witness ==
    /\ PresetEnded
    /\ calc.genre = "white_noise"
    /\ calc.layers = 1
    /\ Len(calc.out) = calc.duration * SynthRate
    /\ \E k \in DOMAIN calc.out : calc.out[k] # <<0, 1>>


(***************************************************************************)
(* C34: on a cache miss generate_music calls the external generator first  *)
(* and the programmatic synthesizer only after the external path, its      *)
(* generation or its put, has failed; each is invoked at most once per     *)
(* request; generate_music never raises: it returns success with a track   *)
(* or success = false with an error message.                               *)
(***************************************************************************)
\* the request found no usable entry of its key
FoundNothing ==
    /\ GenerateEnded
    /\ ~(/\ Has(last.req.index, last.key)
         /\ last.req.files[Get(last.req.index, last.key).file_path] # NoFile)

C34_ExternalFirstThenFallback ==
    /\ GenerateEnded =>
         /\ last.res \in {"cached", "ok", "failed"}
         /\ last.res \in {"cached", "ok"} <=> last.trackId # <<>>
    /\ FoundNothing =>
         /\ last.log \in { <<"audiocraft">>,
                           <<"audiocraft", "external_failed", "programmatic">> }
         /\ last.res # "cached"

\* the external generator made audio, its put failed, the fallback succeeded
C34_Witness ==
    /\ FoundNothing
    /\ ~last.acRaised
    /\ last.log = <<"audiocraft", "external_failed", "programmatic">>
    /\ last.res = "ok"


(***************************************************************************)
(* The generate endpoint of the router: a request that finds no            *)
(* _initialized attribute on audio_cache awaits initialize() and sets it,  *)
(* then calls generate_music.  boot = "restarted" is the process without   *)
(* the attribute; a request that initialized goes on as the same task.     *)
(* SpecRouter: a new process over the cache directory of an earlier run,   *)
(* and one concurrent request per task.                                    *)
(***************************************************************************)
\* the sidecar and the file an earlier run left: nothing, or one entry
InitRouter ==
    /\ \E d \in { <<>> } \cup { <<x>> : x \in
                    { [key |-> GenerateCacheKey(p),
                       e |-> [file_path     |-> CacheFilePath(GenerateCacheKey(p), "wav"),
                              created_at    |-> 0,
                              last_accessed |-> 0,
                              access_count  |-> 1,
                              file_size     |-> 1]] : p \in ConcParams } } :
         /\ sidecar = (IF d = <<>> THEN NoSidecar ELSE Document(EncodeIndex(d)))
         /\ files = [p \in Paths |->
                       IF \E i \in DOMAIN d : d[i].e.file_path = p
                       THEN <<7>> ELSE NoFile]
    /\ index = <<>>
    /\ lock = NoTask
    /\ clock = 0
    /\ task = [t \in Tasks |-> IdleTask]
    /\ last = NoEvent
    /\ chain = NoChain
    /\ faults = 0
    /\ boot = "restarted"
    /\ calc = NoCalc

\* lines 43-50 of the router up to the first await
RouterEnter(t) ==
    \/ boot = "restarted" /\ StartInit(t)
    \/ boot = "running" /\ StartGenerate(t, ConcParams)

StepRouter(t) ==
    \/ RouterEnter(t)
    \/ InitStep(t)
    \/ LookupReturned(t, Payloads)
    \/ Programmatic(t, Payloads)
    \/ PutReturned(t)
    \/ LockStep(t) \/ LookupStep(t) \/ PutStep(t)

NextRouter == Tick \/ \E t \in Tasks : StepRouter(t)

SpecRouter == InitRouter /\ [][NextRouter]_vars


(***************************************************************************)
(* C35: cache initialization runs at most once per process, also when      *)
(* several generate requests arrive before the first one has finished      *)
(* initializing, and it never replaces or resets index entries written by  *)
(* a put or lookup that already completed.                                 *)
(***************************************************************************)
\* an initialize() returned in a process that was initialized already
InitializedAgain == last.op = "init" /\ last.res # "recovered"

\* _load_metadata and _cleanup_invalid_entries act on an initialized process
\* while no cache operation is under way
LoadsOverRunning ==
    /\ boot = "running"
    /\ lock = NoTask
    /\ \E t \in Tasks : task[t].pc = "parse" /\ task'[t].pc # "parse"

\* every entry with a backing file is in the index after the step, as it was
EntriesKept ==
    \A i \in DOMAIN index :
        Exists(index[i].e.file_path) =>
            /\ Has(index', index[i].key)
            /\ Get(index', index[i].key) = index[i].e

C35_InitializesOnce ==
    /\ [](~InitializedAgain)
    /\ [][LoadsOverRunning => EntriesKept]_vars


(***************************************************************************)
(* get_track_audio: no await and no lock: it reads the index and the file  *)
(* in one step, at any point of the operation of another coroutine.        *)
(* SpecAudio: the one caller, and a reader of track audio.                 *)
(***************************************************************************)
\* the bytes returned for track k, <<>> for b""; None when there is no entry
\* or open() raises
TrackAudio(k) ==
    IF ~Has(index, k) THEN [res |-> "none", data |-> <<>>]
    ELSE IF files[Get(index, k).file_path] \in {NoFile, Unreadable}
    THEN [res |-> "none", data |-> <<>>]
    ELSE [res |-> "bytes", data |-> files[Get(index, k).file_path]]

GetTrackAudio ==
    /\ \E k \in CacheKeys :
         last' = [NoEvent EXCEPT !.op = "audio", !.key = k, !.pre = index,
                                 !.res = TrackAudio(k).res,
                                 !.data = TrackAudio(k).data]
    /\ chain' = NoChain
    /\ UNCHANGED <<index, files, sidecar, lock, clock, task, faults, boot, calc>>

NextAudio == Next \/ GetTrackAudio

SpecAudio == Init /\ [][NextAudio]_vars

(***************************************************************************)
(* C36: for a key in the index get_track_audio returns exactly the         *)
(* complete bytes of some completed put of that key, never an empty or     *)
(* partially written file, under any interleaving with a put that          *)
(* overwrites the key or with an eviction.                                 *)
(***************************************************************************)
AudioRead == last.op = "audio" /\ Has(last.pre, last.key)

C36_AudioIsCompletePut ==
    AudioRead =>
        /\ last.res = "bytes"
        /\ last.data \in Payloads
        /\ Len(last.data) = Get(last.pre, last.key).file_size


(***************************************************************************)
(* C37: after any sequence of completed put, remove, cleanup_expired and   *)
(* eviction operations every audio file in the cache directory is the      *)
(* file of exactly one index entry, and the bytes of the audio files add   *)
(* up to the size sum of the index.                                        *)
(***************************************************************************)
AudioFiles == {p \in Paths : files[p] # NoFile}

ReferencedOnce(p) ==
    Cardinality({i \in 1..Len(index) : index[i].e.file_path = p}) = 1

RECURSIVE BytesOf(_)
BytesOf(ps) ==
    IF ps = {} THEN 0
    ELSE LET p == CHOOSE q \in ps : TRUE
         IN  Len(files[p]) + BytesOf(ps \ {p})

\* no file is what a put whose write raised left behind: such a put is not
\* a completed one
OnlyWholeFiles == \A p \in AudioFiles : files[p] \in Payloads

C37_EveryFileIndexedOnce ==
    (lock = NoTask /\ last.op \in {"put", "remove", "cleanup"}
                   /\ last.res # "raise" /\ OnlyWholeFiles) =>
        /\ \A p \in AudioFiles : ReferencedOnce(p)
        /\ BytesOf(AudioFiles) = TotalSize(index)


(***************************************************************************)
(* C38: a put that replaces the entry of its own key evicts no other       *)
(* entry when the sizes of the other entries plus len(audio_bytes) fit in  *)
(* max_size_bytes.                                                         *)
(***************************************************************************)
OthersSize(d, k) == TotalSize(d) - (IF Has(d, k) THEN Get(d, k).file_size ELSE 0)

C38_ReplacingPutSparesOthers ==
    (PutCompleted /\ Has(last.pre, last.key)
                  /\ OthersSize(last.pre, last.key) + Len(last.data) <= MaxSizeBytes) =>
        EvictedKeys \subseteq {last.key}


(***************************************************************************)
(* SpecLive: two callers under the scheduling of the event loop.  A        *)
(* coroutine that can take a step is run (weak fairness of each task),     *)
(* and asyncio.Lock wakes its waiters first come first served, so a        *)
(* waiter is not passed over for ever (strong fairness of Acquire).        *)
(***************************************************************************)
FairConc == \A t \in Tasks : WF_vars(StepConc(t)) /\ SF_vars(Acquire(t))

\* the operations of SpecConc, a put of the larger payload and a cleanup of
\* max_age_days 0
CallLive(t) ==
    \/ StartPut(t, ConcParams, {<<9, 9, 9>>}, Exts)
    \/ StartLookup(t, ConcParams)
    \/ StartRemove(t, ConcKeys)
    \/ StartCleanup(t, {0})

NextLive == Tick \/ \E t \in Tasks : CallLive(t) \/ StepConc(t)

SpecLive == Init /\ [][NextLive]_vars /\ FairConc

(***************************************************************************)
(* C39: every put, lookup, remove and cleanup_expired releases the cache   *)
(* lock on every path, the one where the file write of put raises          *)
(* included, and an operation that waits for the lock is admitted: no      *)
(* sequence of cache operations deadlocks.                                 *)
(***************************************************************************)
C39_LockReleasedAndWaiterAdmitted ==
    \A t \in Tasks :
        /\ (lock = t) ~> (lock = NoTask)
        /\ (task[t].pc = "lock") ~> (lock = t)

\* a put whose write raised has released the lock while the other task waits
C39_Witness ==
    /\ PutRaised
    /\ lock = NoTask
    /\ \E t \in Tasks : task[t].pc = "lock"

====
